---------------------------- MODULE Spec2Model ----------------------------
(***************************************************************************)
(* The quip container codec of progs/quip/src/quipfmt.c: the block writer  *)
(* (quip_quip_out_open .. quip_quip_out_close) with its four encode        *)
(* workers per chunk, and the block reader (quip_quip_in_open,             *)
(* quip_quip_read) with its four decode workers, run on the bytes the      *)
(* writer handed to the outer writer.                                      *)
(*                                                                         *)
(* The container is modelled at the byte level.  The sub-stream codecs     *)
(* (idenc.c, samoptenc.c, qualenc.c, assembler.c) and crc64.c are not part *)
(* of the sources at hand; they are modelled as lossless byte framings     *)
(* behind the interfaces of idenc.h and qualenc.h.                         *)
(***************************************************************************)
EXTENDS Integers, Sequences, FiniteSets, TLC

(***************************************************************************)
(* Bounds of the model.  chunk_size and block_size are the source's        *)
(* constants (5000 reads, 5000000 bases) scaled down so that chunk and     *)
(* block boundaries are reached by a handful of reads.                     *)
(***************************************************************************)
MaxReads == 4

chunk_size == 2

block_size == 2

(* Program constants. *)
quip_header_version == 3

qual_scale_size == 64

BangQual == 33

TildeQual == 126

quip_header_magic == <<255, 81, 85, 73, 80, 0>>

QUIP_FMT_NULL == 0

QUIP_FLAG_REFERENCE == 1

(***************************************************************************)
(* Values an uninitialised uint32_t of a malloc'ed array may hold.         *)
(***************************************************************************)
UninitU32 == {0, 1}

(***************************************************************************)
(* The reads the callers pass in (short_read_t: id, seq, qual, aux).       *)
(***************************************************************************)
MkRead(i, s, q, a) == [id |-> i, seq |-> s, qual |-> q, aux |-> a]

ReadLow == MkRead(<<49>>, <<65>>, <<40>>, <<>>)

ReadHigh == MkRead(<<50>>, <<67, 71>>, <<104, 110>>, <<7>>)

ReadNoQual == MkRead(<<>>, <<84>>, <<>>, <<>>)

ReadNoSeq == MkRead(<<51>>, <<>>, <<>>, <<>>)

ReadSet == {ReadLow, ReadHigh, ReadNoQual, ReadNoSeq}

Streams == {"id", "aux", "seq", "qual"}

(***************************************************************************)
(* Byte encodings of the integer fields.                                   *)
(***************************************************************************)
U8(x) == <<x % 256>>

U32(x) == << (x \div 16777216) % 256, (x \div 65536) % 256,
             (x \div 256) % 256, x % 256 >>

(* Every 64-bit value of the model is below 2^31: the four high bytes are 0. *)
U64(x) == <<0, 0, 0, 0>> \o U32(x)

RECURSIVE SumSeq(_)
SumSeq(s) == IF s = <<>> THEN 0 ELSE Head(s) + SumSeq(Tail(s))

RECURSIVE Flatten(_)
Flatten(ss) == IF ss = <<>> THEN <<>> ELSE Head(ss) \o Flatten(Tail(ss))

Last(s) == s[Len(s)]

SetLast(s, v) == [s EXCEPT ![Len(s)] = v]

Min(a, b) == IF a < b THEN a ELSE b

(***************************************************************************)
(* crc64_update(s, n, crc): a running checksum over bytes.                 *)
(***************************************************************************)
RECURSIVE crc64_update(_, _)
crc64_update(s, crc) ==
    IF s = <<>> THEN crc
    ELSE crc64_update(Tail(s), (crc * 31 + Head(s) + 1) % 65521)


RECURSIVE CrcFields(_, _)
CrcFields(fields, crc) ==
    IF fields = <<>> THEN crc
    ELSE CrcFields(Tail(fields), crc64_update(Head(fields), crc))

(***************************************************************************)
(* The sub-stream encoders, behind idenc.h / qualenc.h.  An encoder is the *)
(* buffer of compressed bytes it has produced and not yet flushed; the     *)
(* quality encoder also holds the base quality set by                      *)
(* qualenc_set_base_qual.  An id or aux item is framed by its length, a    *)
(* sequence or quality string is written bare: the decoder is told its     *)
(* length.                                                                 *)
(***************************************************************************)
idenc_encode(E, id) == E \o <<Len(id)>> \o id

samoptenc_encode(E, aux) == E \o <<Len(aux)>> \o aux

assembler_add_seq(A, r) == A \o r.seq

qualenc_encode(E, r) ==
    [E EXCEPT !.buf = @ \o [j \in 1..Len(r.qual) |->
                               (r.qual[j] - E.base_qual) % 256]]

qualenc_set_base_qual(E, q) == [E EXCEPT !.base_qual = q]

samopt_table_bytes(aux) == Len(aux)

(***************************************************************************)
(* Reference sequence sets (seqmap_t): the file name and the named         *)
(* sequences; NoRef is the NULL pointer.  A sequence is kept as its        *)
(* nucleotide codes.                                                       *)
(***************************************************************************)
NoRef == [null |-> TRUE, fn |-> <<>>, seqs |-> <<>>]

MkRef(fn, seqs) == [null |-> FALSE, fn |-> fn, seqs |-> seqs]

twobit_len(seq) == Len(seq)

twobit_crc64_update(seq, crc) == crc64_update(seq, crc)

RECURSIVE SeqmapCrcFrom(_, _, _)
SeqmapCrcFrom(M, i, crc) ==
    IF i > Len(M.seqs) THEN crc
    ELSE SeqmapCrcFrom(M, i + 1,
            twobit_crc64_update(M.seqs[i].seq,
                                crc64_update(M.seqs[i].seqname, crc)))

seqmap_crc64(M) == SeqmapCrcFrom(M, 1, 0)

(* seqmap_write_quip_header_info: the bytes it hands to the writer. *)
seqmap_write_quip_header_info(M) ==
    U64(seqmap_crc64(M)) \o U32(Len(M.fn)) \o M.fn \o U32(Len(M.seqs))
      \o Flatten([i \in 1..Len(M.seqs) |->
                    U32(Len(M.seqs[i].seqname)) \o M.seqs[i].seqname
                       \o U64(twobit_len(M.seqs[i].seq))])

(***************************************************************************)
(* quip_quip_out_open with no reference, no assembly and no aux data: the  *)
(* writer struct after construction, the container header written.         *)
(* writer_data is the byte sink behind the outer writer.  The first run    *)
(* count of qual_scheme_lens is never assigned: it is whatever malloc      *)
(* returned.                                                               *)
(***************************************************************************)
quip_quip_out_open(uninit) ==
    [ chunk |-> <<>>,
      buffered_reads |-> 0, buffered_bases |-> 0,
      id_crc |-> 0, aux_crc |-> 0, seq_crc |-> 0, qual_crc |-> 0,
      id_bytes |-> 0, aux_bytes |-> 0, qual_bytes |-> 0, seq_bytes |-> 0,
      readlen_vals |-> <<>>, readlen_lens |-> <<>>,
      qual_scheme_vals |-> <<BangQual>>, qual_scheme_lens |-> <<uninit>>,
      total_reads |-> 0, total_bases |-> 0,
      idenc |-> <<>>, auxenc |-> <<>>, assembler |-> <<>>,
      qualenc |-> [buf |-> <<>>, base_qual |-> BangQual],
      writer_data |-> quip_header_magic \o U8(quip_header_version) \o U8(0)
                         \o U8(QUIP_FMT_NULL) \o U64(0),
      error |-> FALSE,
      finished |-> FALSE ]

(* quip_quip_out_open with a reference: the REFERENCE flag is set and the  *)
(* reference section follows the flags.                                    *)
quip_quip_out_open_ref(uninit, ref) ==
    IF ref.null THEN quip_quip_out_open(uninit)
    ELSE [quip_quip_out_open(uninit) EXCEPT
            !.writer_data =
                quip_header_magic \o U8(quip_header_version)
                   \o U8(QUIP_FLAG_REFERENCE)
                   \o seqmap_write_quip_header_info(ref)
                   \o U8(QUIP_FMT_NULL) \o U64(0)]

(* The four encode workers: each runs over the whole chunk. *)
id_compressor_thread(W) ==
    LET ids == [i \in 1..Len(W.chunk) |-> W.chunk[i].id]
    IN  [W EXCEPT
           !.idenc = @ \o Flatten([i \in 1..Len(ids) |-> idenc_encode(<<>>, ids[i])]),
           !.id_crc = CrcFields(ids, @)]

aux_compressor_thread(W) ==
    LET auxs == [i \in 1..Len(W.chunk) |-> W.chunk[i].aux]
    IN  [W EXCEPT
           !.auxenc = @ \o Flatten([i \in 1..Len(auxs) |-> samoptenc_encode(<<>>, auxs[i])]),
           !.aux_crc = CrcFields(auxs, @)]

(* A sequence worker that also keeps the block's base count. *)
seq_thread_counts_bases(W) == [W EXCEPT !.buffered_bases = @ + Len(W.chunk)]

seq_compressor_thread(W) ==
    LET seqs == [i \in 1..Len(W.chunk) |-> W.chunk[i].seq]
    IN  [W EXCEPT
           !.assembler = @ \o Flatten([i \in 1..Len(seqs) |->
                                          assembler_add_seq(<<>>, W.chunk[i])]),
           !.seq_crc = CrcFields(seqs, @)]

RECURSIVE QualEncodeAll(_, _)
QualEncodeAll(E, chunk) ==
    IF chunk = <<>> THEN E
    ELSE QualEncodeAll(qualenc_encode(E, Head(chunk)), Tail(chunk))

qual_compressor_thread(W) ==
    LET quals == [i \in 1..Len(W.chunk) |-> W.chunk[i].qual]
    IN  [W EXCEPT
           !.qualenc = QualEncodeAll(@, W.chunk),
           !.qual_crc = CrcFields(quals, @)]

(* A worker that hands its bytes to the outer writer itself. *)
worker_writes_through(t, W) == [W EXCEPT !.writer_data = @ \o <<Len(W.chunk)>>]

compressor_thread(t, W) ==
    CASE t = "id"   -> id_compressor_thread(W)
      [] t = "aux"  -> aux_compressor_thread(W)
      [] t = "seq"  -> seq_compressor_thread(W)
      [] t = "qual" -> qual_compressor_thread(W)

(* A run-length table that opens runs but never counts their repeats. *)
add_readlen_no_count(W, l) ==
    IF Len(W.readlen_vals) = 0 \/ Last(W.readlen_vals) # l
    THEN [W EXCEPT !.readlen_vals = Append(@, l),
                   !.readlen_lens = Append(@, 1)]
    ELSE W

quip_out_add_readlen(W, l) ==
    IF Len(W.readlen_vals) = 0 \/ Last(W.readlen_vals) # l
    THEN [W EXCEPT !.readlen_vals = Append(@, l),
                   !.readlen_lens = Append(@, 1)]
    ELSE [W EXCEPT !.readlen_lens = SetLast(@, Last(@) + 1)]

(* The size/CRC record of one sub-stream in a block header. *)
SizeRecord(bytes, comp, crc) == U32(bytes) \o U32(comp) \o U64(crc)

RlePairs32(vals, lens) ==
    Flatten([i \in 1..Len(vals) |-> U32(vals[i]) \o U32(lens[i])])

RlePairs8(vals, lens) ==
    Flatten([i \in 1..Len(vals) |-> U8(vals[i]) \o U32(lens[i])])

BlockHeader(W) ==
    U32(W.buffered_reads) \o U32(W.buffered_bases)
      \o RlePairs32(W.readlen_vals, W.readlen_lens)
      \o RlePairs8(W.qual_scheme_vals, W.qual_scheme_lens)

(* The four *_finish calls return the compressed sizes; then the size     *)
(* records, then the four *_flush calls.                                   *)
BlockRecords(W) ==
    SizeRecord(W.id_bytes, Len(W.idenc), W.id_crc)
      \o SizeRecord(W.aux_bytes, Len(W.auxenc), W.aux_crc)
      \o SizeRecord(W.seq_bytes, Len(W.assembler), W.seq_crc)
      \o SizeRecord(W.qual_bytes, Len(W.qualenc.buf), W.qual_crc)

(* A block writer that flushes the sequence region first. *)
RegionsSeqFirst(W) == W.assembler \o W.idenc \o W.auxenc \o W.qualenc.buf

BlockRegions(W) == W.idenc \o W.auxenc \o W.assembler \o W.qualenc.buf

(* A flush that leaves the uncompressed byte counts running into the next *)
(* block.                                                                  *)
flush_block_keeps_sizes(W) ==
    [W EXCEPT
       !.writer_data = @ \o BlockHeader(W) \o BlockRecords(W) \o BlockRegions(W),
       !.idenc = <<>>, !.auxenc = <<>>, !.assembler = <<>>,
       !.qualenc.buf = <<>>,
       !.buffered_reads = 0, !.buffered_bases = 0,
       !.id_crc = 0, !.seq_crc = 0, !.qual_crc = 0, !.aux_crc = 0,
       !.readlen_vals = <<>>, !.readlen_lens = <<>>,
       !.qual_scheme_vals = <<Last(W.qual_scheme_vals)>>,
       !.qual_scheme_lens = <<0>>]

(* A flush that carries the count of the last run into the next block. *)
flush_block_keeps_run_count(W) ==
    [W EXCEPT
       !.writer_data = @ \o BlockHeader(W) \o BlockRecords(W) \o BlockRegions(W),
       !.idenc = <<>>, !.auxenc = <<>>, !.assembler = <<>>,
       !.qualenc.buf = <<>>,
       !.buffered_reads = 0, !.buffered_bases = 0,
       !.id_bytes = 0, !.qual_bytes = 0, !.seq_bytes = 0, !.aux_bytes = 0,
       !.id_crc = 0, !.seq_crc = 0, !.qual_crc = 0, !.aux_crc = 0,
       !.readlen_vals = <<>>, !.readlen_lens = <<>>,
       !.qual_scheme_vals = <<Last(W.qual_scheme_vals)>>,
       !.qual_scheme_lens = <<Last(W.qual_scheme_lens)>>]

quip_out_flush_block(W) ==
    [W EXCEPT
       !.writer_data = @ \o BlockHeader(W) \o BlockRecords(W) \o BlockRegions(W),
       !.idenc = <<>>, !.auxenc = <<>>, !.assembler = <<>>,
       !.qualenc.buf = <<>>,
       !.buffered_reads = 0, !.buffered_bases = 0,
       !.id_bytes = 0, !.qual_bytes = 0, !.seq_bytes = 0, !.aux_bytes = 0,
       !.id_crc = 0, !.seq_crc = 0, !.qual_crc = 0, !.aux_crc = 0,
       !.readlen_vals = <<>>, !.readlen_lens = <<>>,
       !.qual_scheme_vals = <<Last(W.qual_scheme_vals)>>,
       !.qual_scheme_lens = <<0>>]

ChunkQuals(W) == Flatten([i \in 1..Len(W.chunk) |-> W.chunk[i].qual])

RECURSIVE MinQual(_, _)
MinQual(qs, m) ==
    IF qs = <<>> THEN m
    ELSE MinQual(Tail(qs), IF Head(qs) < m THEN Head(qs) ELSE m)

RECURSIVE MaxQual(_, _)
MaxQual(qs, m) ==
    IF qs = <<>> THEN m
    ELSE MaxQual(Tail(qs), IF Head(qs) > m THEN Head(qs) ELSE m)

(* A guess that opens a run at the chunk's lowest quality for every chunk. *)
guess_always_new_run(W) ==
    LET min_qual == MinQual(ChunkQuals(W), TildeQual)
    IN  [W EXCEPT
           !.qual_scheme_vals = Append(@, min_qual),
           !.qual_scheme_lens = Append(@, Len(W.chunk)),
           !.qualenc = qualenc_set_base_qual(@, min_qual)]

(* A guess that looks at the chunk's lowest quality only. *)
guess_by_min_only(W) ==
    LET last_base_qual == Last(W.qual_scheme_vals)
        min_qual == MinQual(ChunkQuals(W), TildeQual)
    IN  IF min_qual < last_base_qual
             \/ min_qual > last_base_qual + qual_scale_size - 1
        THEN [W EXCEPT
                !.qual_scheme_vals = Append(@, min_qual),
                !.qual_scheme_lens = Append(@, Len(W.chunk)),
                !.qualenc = qualenc_set_base_qual(@, min_qual)]
        ELSE [W EXCEPT
                !.qual_scheme_lens = SetLast(@, Last(@) + Len(W.chunk)),
                !.qualenc = qualenc_set_base_qual(@, last_base_qual)]

update_qual_scheme_guess(W) ==
    LET last_base_qual == Last(W.qual_scheme_vals)
        min_qual == MinQual(ChunkQuals(W), TildeQual)
        max_qual == MaxQual(ChunkQuals(W), BangQual)
    IN  IF max_qual - min_qual > max_qual
        THEN [W EXCEPT !.error = TRUE]
        ELSE IF min_qual < last_base_qual
                  \/ max_qual >= last_base_qual + qual_scale_size
        THEN [W EXCEPT
                !.qual_scheme_vals = Append(@, min_qual),
                !.qual_scheme_lens = Append(@, Len(W.chunk)),
                !.qualenc = qualenc_set_base_qual(@, min_qual)]
        ELSE [W EXCEPT
                !.qual_scheme_lens = SetLast(@, Last(@) + Len(W.chunk)),
                !.qualenc = qualenc_set_base_qual(@, last_base_qual)]

(* quip_out_flush_chunk between thread creation and join: the read-length  *)
(* RLE and the block totals.                                               *)
RECURSIVE AddReadlens(_, _)
AddReadlens(W, chunk) ==
    IF chunk = <<>> THEN W
    ELSE LET r  == Head(chunk)
             W1 == quip_out_add_readlen(W, Len(r.seq))
         IN  AddReadlens(
               [W1 EXCEPT !.id_bytes = @ + Len(r.id),
                          !.aux_bytes = @ + samopt_table_bytes(r.aux),
                          !.qual_bytes = @ + Len(r.qual),
                          !.seq_bytes = @ + Len(r.seq),
                          !.buffered_bases = @ + Len(r.seq),
                          !.total_bases = @ + Len(r.seq)],
               Tail(chunk))

(* Totals that leave out the chunk's read count. *)
totals_without_reads(W) == AddReadlens(W, W.chunk)

flush_chunk_totals(W) ==
    [AddReadlens(W, W.chunk) EXCEPT
       !.buffered_reads = @ + Len(W.chunk),
       !.total_reads = @ + Len(W.chunk)]

(* After the four joins. *)
flush_chunk_join(W) == [W EXCEPT !.chunk = <<>>]

short_read_copy(W, r) == [W EXCEPT !.chunk = Append(@, r)]

(* quip_quip_write up to its call of quip_out_flush_chunk. *)
WriteNeedsBlock(W) == W.buffered_bases > block_size

write_head(W) == IF WriteNeedsBlock(W) THEN quip_out_flush_block(W) ELSE W

(* A finish that writes a block whether or not anything is buffered. *)
finish_always_flushes(W) == W.buffered_bases >= 0

(* quip_out_finish after its call of quip_out_flush_chunk. *)
FinishNeedsBlock(W) == W.buffered_bases > 0

finish_tail(W) ==
    LET W1 == IF FinishNeedsBlock(W) THEN quip_out_flush_block(W) ELSE W
    IN  [W1 EXCEPT !.writer_data = @ \o U32(0), !.finished = TRUE]


(***************************************************************************)
(* The reader.  reader_data is the container and the number of bytes       *)
(* consumed from it.  A 32-bit field whose top byte is set lies outside    *)
(* the integers of the model: the reader is then off the container's       *)
(* framing and is stopped ("range").                                       *)
(***************************************************************************)
Avail(rd, n) == rd.pos + n <= Len(rd.data)

Peek(rd, off, n) == SubSeq(rd.data, rd.pos + off + 1, rd.pos + off + n)

Skip(rd, n) == [rd EXCEPT !.pos = Min(Len(rd.data), @ + n)]

InRange32(b) == b[1] = 0

Val32(b) == (b[2] * 256 + b[3]) * 256 + b[4]

NoRead == MkRead(<<>>, <<>>, <<>>, <<>>)

(* A position of a malloc'ed array, or 0 with the flag raised when the     *)
(* index lies beyond what was stored.                                      *)
InArray(s, idx) == idx + 1 <= Len(s)

At(s, idx) == IF InArray(s, idx) THEN s[idx + 1] ELSE 0

(* n bytes of a compressed buffer from pos on; a buffer reader at its end  *)
(* delivers nothing and the decoder sees zeros.                            *)
TakeBytes(buf, pos, n) ==
    [j \in 1..n |-> IF pos + j <= Len(buf) THEN buf[pos + j] ELSE 0]

(* quip_error: the fatal error; the message says which. *)
quip_error(D, msg) == [D EXCEPT !.status = "error", !.error_msg = msg]

(* A version check that lets version 1 through as well. *)
accepts_version_1(v) == v \in {1, 2, 3}

(* check_header_version returns for the versions 2 and 3 only. *)
check_header_version(v) == v = 2 \/ v = 3

(* A reference check that does not compare the stored CRC. *)
crc_unchecked(stored, M) == TRUE

(* seqmap_crc64(M) != read_uint64(reader, reader_data) *)
RefCrcMatches(stored, M) == stored = U64(seqmap_crc64(M))

(* The loop of seqmap_check_quip_header_info over the n stored sequences.  *)
(* The name bytes are read without a test of the count delivered: when the *)
(* file ends inside a name the buffer compared is partly what it held      *)
(* before, and stale says whether that happens to match.                   *)
RECURSIVE CheckSeqs(_, _, _, _, _)
CheckSeqs(rd, M, i, n, stale) ==
    IF i > n THEN [rd |-> rd, st |-> "ok"]
    ELSE LET len  == Val32(Peek(rd, 0, 4))
             rd1  == Skip(rd, 4)
             name == M.seqs[i].seqname
             rd2  == Skip(rd1, len)
         IN  IF ~Avail(rd, 4) THEN [rd |-> rd1, st |-> "end of file"]
             ELSE IF len # Len(name)
             THEN [rd |-> rd1, st |-> "incorrect reference"]
             ELSE IF Avail(rd1, len) /\ Peek(rd1, 0, len) # name
             THEN [rd |-> rd2, st |-> "incorrect reference"]
             ELSE IF ~Avail(rd1, len) /\ ~stale
             THEN [rd |-> rd2, st |-> "incorrect reference"]
             ELSE IF ~Avail(rd2, 8)
             THEN [rd |-> Skip(rd2, 8), st |-> "end of file"]
             ELSE IF Peek(rd2, 0, 8) # U64(twobit_len(M.seqs[i].seq))
             THEN [rd |-> Skip(rd2, 8), st |-> "incorrect reference"]
             ELSE CheckSeqs(Skip(rd2, 8), M, i + 1, n, stale)

(* seqmap_check_quip_header_info: the reader after it and whether it       *)
(* returned or raised which error.                                         *)
seqmap_check_quip_header_info(rd, M, stale) ==
    LET rd1   == Skip(rd, 8)
        fnlen == Val32(Peek(rd1, 0, 4))
        rd2   == Skip(Skip(rd1, 4), fnlen)
        n     == Val32(Peek(rd2, 0, 4))
        rd3   == Skip(rd2, 4)
    IN  IF ~Avail(rd, 8) THEN [rd |-> rd1, st |-> "end of file"]
        ELSE IF ~RefCrcMatches(Peek(rd, 0, 8), M)
        THEN [rd |-> rd1, st |-> "incorrect reference"]
        ELSE IF ~Avail(rd1, 4) THEN [rd |-> Skip(rd1, 4), st |-> "end of file"]
        ELSE IF ~Avail(rd2, 4) THEN [rd |-> rd3, st |-> "end of file"]
        ELSE IF Len(M.seqs) # n THEN [rd |-> rd3, st |-> "incorrect reference"]
        ELSE CheckSeqs(rd3, M, 1, n, stale)

quip_quip_in_open_ref(data, ref, stale) ==
    LET D0 ==
          [ chunk |-> [i \in 1..chunk_size |-> NoRead],
            chunk_len |-> 0, chunk_pos |-> 0,
            reader_data |-> [data |-> data, pos |-> 0],
            idbuf |-> <<>>, idbuf_pos |-> 0,
            auxbuf |-> <<>>, auxbuf_pos |-> 0,
            seqbuf |-> <<>>, seqbuf_pos |-> 0,
            qualbuf |-> <<>>, qualbuf_pos |-> 0,
            pending_reads |-> 0, block_num |-> 0,
            exp_id_crc |-> U64(0), exp_aux_crc |-> U64(0),
            exp_seq_crc |-> U64(0), exp_qual_crc |-> U64(0),
            id_crc |-> 0, aux_crc |-> 0, seq_crc |-> 0, qual_crc |-> 0,
            readlen_vals |-> <<>>, readlen_lens |-> <<>>,
            readlen_idx |-> 0, readlen_off |-> 0,
            qual_scheme_vals |-> <<>>, qual_scheme_lens |-> <<>>,
            qual_scheme_idx |-> 0, qual_scheme_off |-> 0,
            base_qual |-> BangQual,
            dec_base |-> [i \in 1..chunk_size |-> 0],
            status |-> "ok", error_msg |-> "none",
            aux_data_n |-> 0, aux_data |-> <<>>,
            end_of_stream |-> FALSE ]
        rd0   == D0.reader_data
        flags == Peek(rd0, 7, 1)[1]
        ver   == Peek(rd0, 6, 1)[1]
        rd1   == Skip(rd0, 8)
        ref_based == flags % 2 = 1
        chk   == IF ref_based /\ ~ref.null
                 THEN seqmap_check_quip_header_info(rd1, ref, stale)
                 ELSE [rd |-> rd1, st |-> "ok"]
        rdr   == chk.rd
        asm   == (flags \div 2) % 2 = 1
        rd2   == IF asm THEN Skip(rdr, 8) ELSE rdr
        asize == Peek(rd2, 1, 8)
        aux_n == Val32(SubSeq(asize, 5, 8))
        rd3   == Skip(Skip(rd2, 9), aux_n)
        D1    == [D0 EXCEPT !.reader_data = rd1]
    IN  IF ~Avail(rd0, 8) \/ Peek(rd0, 0, 6) # quip_header_magic
        THEN quip_error(D1, "not a quip file")
        ELSE IF ~check_header_version(ver)
        THEN quip_error(D1, "different version")
        ELSE IF ref_based /\ ref.null
        THEN quip_error(D1, "reference needed")
        ELSE IF chk.st # "ok"
        THEN quip_error([D0 EXCEPT !.reader_data = rdr], chk.st)
        ELSE IF asm /\ ~Avail(rdr, 8) THEN quip_error(D1, "end of file")
        ELSE IF ~Avail(rd2, 9) THEN quip_error(D1, "end of file")
        ELSE IF SubSeq(asize, 1, 5) # <<0, 0, 0, 0, 0>>
        THEN [D0 EXCEPT !.status = "range"]
        ELSE [D0 EXCEPT !.reader_data = rd3,
                        !.aux_data_n = aux_n,
                        !.aux_data = Peek(Skip(rd2, 9), 0,
                                          Min(aux_n, Len(data) - rd2.pos - 9))]

(* quip_quip_in_open(reader, reader_data, opts, NULL) *)
quip_quip_in_open(data) == quip_quip_in_open_ref(data, NoRef, FALSE)

(* quip_list up to its version check: the same test of the first 8 bytes.  *)
quip_list_header(data) ==
    LET rd0 == [data |-> data, pos |-> 0]
        L0  == [status |-> "ok", error_msg |-> "none",
                pos |-> Skip(rd0, 8).pos, file |-> data]
    IN  IF ~Avail(rd0, 8) \/ Peek(rd0, 0, 6) # quip_header_magic
        THEN [L0 EXCEPT !.status = "error", !.error_msg = "not a quip file"]
        ELSE IF ~check_header_version(Peek(rd0, 6, 1)[1])
        THEN [L0 EXCEPT !.status = "error", !.error_msg = "different version"]
        ELSE L0

(* quip_list: the loop over the sequences of the reference section. *)
RECURSIVE ListSkipSeqs(_, _, _)
ListSkipSeqs(rd, i, n) ==
    IF i >= n THEN [rd |-> rd, st |-> "ok"]
    ELSE IF ~Avail(rd, 4) THEN [rd |-> Skip(rd, 4), st |-> "error"]
    ELSE LET seqname_len == Val32(Peek(rd, 0, 4))
             rd1 == Skip(rd, 4)
             rd2 == Skip(rd1, seqname_len)
         IN  IF ~Avail(rd1, seqname_len) \/ ~Avail(rd2, 8)
             THEN [rd |-> Skip(rd2, 8), st |-> "error"]
             ELSE ListSkipSeqs(Skip(rd2, 8), i + 1, n)

(* quip_list: the reference section is read over. *)
ListSkipRef(rd) ==
    LET rd1   == Skip(rd, 8)
        fnlen == Val32(Peek(rd1, 0, 4))
        rd2   == Skip(rd1, 4)
        rd3   == Skip(rd2, fnlen)
        n     == Val32(Peek(rd3, 0, 4))
    IN  IF ~Avail(rd, 8) \/ ~Avail(rd1, 4) \/ ~Avail(rd2, fnlen)
           \/ ~Avail(rd3, 4)
        THEN [rd |-> Skip(rd3, 4), st |-> "error"]
        ELSE ListSkipSeqs(Skip(rd3, 4), 0, n)

(* quip_list: the loops over the run-length pairs of a block header, the   *)
(* value being w bytes wide; n counts the pairs.                           *)
RECURSIVE ListRuns(_, _, _, _, _)
ListRuns(rd, block_reads, count, w, n) ==
    IF count >= block_reads THEN [st |-> "ok", rd |-> rd, n |-> n]
    ELSE IF ~Avail(rd, w + 4) THEN [st |-> "error", rd |-> rd, n |-> n]
    ELSE IF ~InRange32(Peek(rd, w, 4)) THEN [st |-> "range", rd |-> rd, n |-> n]
    ELSE ListRuns(Skip(rd, w + 4), block_reads,
                  count + Val32(Peek(rd, w, 4)), w, n + 1)

(* quip_list: the loop over the blocks. *)
RECURSIVE ListBlocks(_, _)
ListBlocks(rd, l) ==
    LET block_reads == Val32(Peek(rd, 0, 4))
        rl  == ListRuns(Skip(rd, 8), block_reads, 0, 4, 0)
        qs  == ListRuns(rl.rd, block_reads, 0, 1, 0)
        rd1 == qs.rd
        unc(k) == Val32(Peek(rd1, 16 * k, 4))
        cmp(k) == Val32(Peek(rd1, 16 * k + 4, 4))
        block_bytes == cmp(0) + cmp(1) + cmp(2) + cmp(3)
        rd2 == Skip(Skip(rd1, 64), block_bytes)
        eof(r) == [l EXCEPT !.status = "error", !.error_msg = "end of file",
                            !.pos = r.pos]
    IN  IF ~Avail(rd, 4) THEN eof(Skip(rd, 4))
        ELSE IF ~InRange32(Peek(rd, 0, 4))
        THEN [l EXCEPT !.status = "range", !.pos = rd.pos]
        ELSE IF block_reads = 0
        THEN [l EXCEPT !.header_bytes = @ + 4, !.pos = rd.pos + 4]
        ELSE IF ~Avail(rd, 8) THEN eof(Skip(rd, 8))
        ELSE IF ~InRange32(Peek(rd, 4, 4))
        THEN [l EXCEPT !.status = "range", !.pos = rd.pos]
        ELSE IF rl.st = "error" THEN eof(Skip(rl.rd, 8))
        ELSE IF rl.st # "ok" THEN [l EXCEPT !.status = rl.st, !.pos = rl.rd.pos]
        ELSE IF qs.st = "error" THEN eof(Skip(qs.rd, 5))
        ELSE IF qs.st # "ok" THEN [l EXCEPT !.status = qs.st, !.pos = qs.rd.pos]
        ELSE IF ~Avail(rd1, 64) THEN eof(Skip(rd1, 64))
        ELSE IF \E k \in 0..3 : ~InRange32(Peek(rd1, 16 * k, 4))
                                   \/ ~InRange32(Peek(rd1, 16 * k + 4, 4))
        THEN [l EXCEPT !.status = "range", !.pos = rd1.pos]
        ELSE ListBlocks(rd2,
               [l EXCEPT
                  !.num_reads = @ + block_reads,
                  !.num_bases = @ + Val32(Peek(rd, 4, 4)),
                  !.num_blocks = @ + 1,
                  !.header_bytes = @ + 4 + 8 * rl.n + 6 * qs.n + 52,
                  !.id_bytes = <<@[1] + unc(0), @[2] + cmp(0)>>,
                  !.aux_bytes = <<@[1] + unc(1), @[2] + cmp(1)>>,
                  !.seq_bytes = <<@[1] + unc(2), @[2] + cmp(2)>>,
                  !.qual_bytes = <<@[1] + unc(3), @[2] + cmp(3)>>,
                  !.ends = Append(@, rd2.pos)])

(* quip_list(reader, reader_data, l); ends keeps the position reached      *)
(* after the container header and after each block.                        *)
quip_list(data) ==
    LET h     == quip_list_header(data)
        l0    == [status |-> h.status, error_msg |-> h.error_msg,
                  pos |-> h.pos, file |-> data,
                  lead_fmt |-> 0, lead_bytes |-> 0,
                  num_blocks |-> 0, num_reads |-> 0, num_bases |-> 0,
                  header_bytes |-> 0,
                  id_bytes |-> <<0, 0>>, aux_bytes |-> <<0, 0>>,
                  seq_bytes |-> <<0, 0>>, qual_bytes |-> <<0, 0>>,
                  ends |-> <<>>]
        rd0   == [data |-> data, pos |-> 8]
        flags == data[8]
        rf    == IF flags % 2 = 1 THEN ListSkipRef(rd0)
                 ELSE [rd |-> rd0, st |-> "ok"]
        asm   == (flags \div 2) % 2 = 1
        rd2   == IF asm THEN Skip(rf.rd, 8) ELSE rf.rd
        lsize == Peek(rd2, 1, 8)
        lead  == Val32(SubSeq(lsize, 5, 8))
        rd3   == Skip(Skip(rd2, 9), lead)
        eof(r) == [l0 EXCEPT !.status = "error", !.error_msg = "end of file",
                             !.pos = r.pos]
    IN  IF h.status # "ok" THEN l0
        ELSE IF rf.st # "ok" THEN eof(rf.rd)
        ELSE IF asm /\ ~Avail(rf.rd, 8) THEN eof(rd2)
        ELSE IF ~Avail(rd2, 9) THEN eof(Skip(rd2, 9))
        ELSE IF SubSeq(lsize, 1, 5) # <<0, 0, 0, 0, 0>>
        THEN [l0 EXCEPT !.status = "range", !.pos = rd2.pos + 9]
        ELSE ListBlocks(rd3, [l0 EXCEPT !.lead_fmt = Peek(rd2, 0, 1)[1],
                                        !.lead_bytes = lead,
                                        !.ends = <<rd3.pos>>])

(* The loop reading (u32 value, u32 run count) pairs until the run counts  *)
(* reach pending_reads.                                                    *)
RECURSIVE ReadRle32(_, _, _, _, _)
ReadRle32(rd, pending, cnt, vals, lens) ==
    IF cnt >= pending
    THEN [st |-> "ok", rd |-> rd, vals |-> vals, lens |-> lens]
    ELSE IF ~Avail(rd, 8)
    THEN [st |-> "error", rd |-> rd, vals |-> vals, lens |-> lens]
    ELSE IF ~InRange32(Peek(rd, 0, 4)) \/ ~InRange32(Peek(rd, 4, 4))
    THEN [st |-> "range", rd |-> rd, vals |-> vals, lens |-> lens]
    ELSE ReadRle32(Skip(rd, 8), pending, cnt + Val32(Peek(rd, 4, 4)),
                   Append(vals, Val32(Peek(rd, 0, 4))),
                   Append(lens, Val32(Peek(rd, 4, 4))))

(* The loop reading (u8 base, u32 run count) pairs. *)
RECURSIVE ReadRle8(_, _, _, _, _)
ReadRle8(rd, pending, cnt, vals, lens) ==
    IF cnt >= pending
    THEN [st |-> "ok", rd |-> rd, vals |-> vals, lens |-> lens]
    ELSE IF ~Avail(rd, 5)
    THEN [st |-> "error", rd |-> rd, vals |-> vals, lens |-> lens]
    ELSE IF ~InRange32(Peek(rd, 1, 4))
    THEN [st |-> "range", rd |-> rd, vals |-> vals, lens |-> lens]
    ELSE ReadRle8(Skip(rd, 5), pending, cnt + Val32(Peek(rd, 1, 4)),
                  Append(vals, Peek(rd, 0, 1)[1]),
                  Append(lens, Val32(Peek(rd, 1, 4))))

(* The quality schemes that were not used are skipped. *)
RECURSIVE SkipUnused(_, _)
SkipUnused(lens, idx) ==
    IF idx < Len(lens) - 1 /\ lens[idx + 1] = 0
    THEN SkipUnused(lens, idx + 1)
    ELSE idx

(* A block header that keeps the running checksums of the block before. *)
keep_running_crc(crc) == crc

(* The running checksum a block starts with: D->id_crc = ... = 0. *)
block_start_crc(crc) == 0

quip_in_read_block_header(D) ==
    LET rd0 == D.reader_data
        pending == Val32(Peek(rd0, 0, 4))
        rl  == ReadRle32(Skip(rd0, 8), pending, 0, <<>>, <<>>)
        qs  == ReadRle8(rl.rd, pending, 0, <<>>, <<>>)
        rd1 == qs.rd
        cnt(k) == Val32(Peek(rd1, 16 * k + 4, 4))
        crc(k) == Peek(rd1, 16 * k + 8, 8)
        rd2 == Skip(rd1, 64)
        rd3 == Skip(rd2, cnt(0))
        rd4 == Skip(rd3, cnt(1))
        rd5 == Skip(rd4, cnt(2))
        rd6 == Skip(rd5, cnt(3))
        idx == SkipUnused(qs.lens, 0)
    IN  IF ~Avail(rd0, 4) THEN quip_error(D, "end of file")
        ELSE IF ~InRange32(Peek(rd0, 0, 4)) THEN [D EXCEPT !.status = "range"]
        ELSE IF pending = 0
        THEN [D EXCEPT !.pending_reads = 0, !.end_of_stream = TRUE,
                       !.reader_data = Skip(rd0, 4)]
        ELSE IF ~Avail(rd0, 8) THEN quip_error(D, "end of file")
        ELSE IF rl.st = "error" THEN quip_error(D, "end of file")
        ELSE IF rl.st # "ok" THEN [D EXCEPT !.status = rl.st]
        ELSE IF qs.st = "error" THEN quip_error(D, "end of file")
        ELSE IF qs.st # "ok" THEN [D EXCEPT !.status = qs.st]
        ELSE IF ~Avail(rd1, 64) THEN quip_error(D, "end of file")
        ELSE IF \E k \in 0..3 : ~InRange32(Peek(rd1, 16 * k + 4, 4))
        THEN [D EXCEPT !.status = "range"]
        ELSE IF ~Avail(rd2, cnt(0) + cnt(1) + cnt(2) + cnt(3))
        THEN quip_error(D, "end of file")
        ELSE [D EXCEPT
                !.pending_reads = pending,
                !.readlen_vals = rl.vals, !.readlen_lens = rl.lens,
                !.qual_scheme_vals = qs.vals, !.qual_scheme_lens = qs.lens,
                !.exp_id_crc = crc(0), !.exp_aux_crc = crc(1),
                !.exp_seq_crc = crc(2), !.exp_qual_crc = crc(3),
                !.idbuf = Peek(rd2, 0, cnt(0)), !.idbuf_pos = 0,
                !.auxbuf = Peek(rd3, 0, cnt(1)), !.auxbuf_pos = 0,
                !.seqbuf = Peek(rd4, 0, cnt(2)), !.seqbuf_pos = 0,
                !.qualbuf = Peek(rd5, 0, cnt(3)), !.qualbuf_pos = 0,
                !.reader_data = rd6,
                !.readlen_idx = 0, !.readlen_off = 0,
                !.qual_scheme_off = 0, !.qual_scheme_idx = idx,
                !.base_qual = qs.vals[idx + 1],
                !.id_crc = block_start_crc(@), !.aux_crc = block_start_crc(@),
                !.seq_crc = block_start_crc(@), !.qual_crc = block_start_crc(@),
                !.block_num = @ + 1]


(***************************************************************************)
(* The sub-stream decoders and the four decode workers.                    *)
(***************************************************************************)
(* A worker that always decodes a full chunk. *)
decode_full_chunk(D) == chunk_size

DecodeCount(D) ==
    IF D.pending_reads >= chunk_size THEN chunk_size ELSE D.pending_reads

(* idenc_decode / samoptenc_decode: the length, then the item. *)
FramedItem(buf, pos) == TakeBytes(buf, pos + 1, TakeBytes(buf, pos, 1)[1])

RECURSIVE IdDecodeLoop(_, _, _)
IdDecodeLoop(D, i, cnt) ==
    IF i > cnt THEN D
    ELSE LET id == FramedItem(D.idbuf, D.idbuf_pos)
         IN  IdDecodeLoop(
               [D EXCEPT !.chunk[i].id = id,
                         !.idbuf_pos = Min(Len(D.idbuf), @ + 1 + Len(id)),
                         !.id_crc = crc64_update(id, @)],
               i + 1, cnt)

id_decompressor_thread(D) == IdDecodeLoop(D, 1, DecodeCount(D))

RECURSIVE AuxDecodeLoop(_, _, _)
AuxDecodeLoop(D, i, cnt) ==
    IF i > cnt THEN D
    ELSE LET aux == FramedItem(D.auxbuf, D.auxbuf_pos)
         IN  AuxDecodeLoop(
               [D EXCEPT !.chunk[i].aux = aux,
                         !.auxbuf_pos = Min(Len(D.auxbuf), @ + 1 + Len(aux)),
                         !.aux_crc = crc64_update(aux, @)],
               i + 1, cnt)

aux_decompressor_thread(D) == AuxDecodeLoop(D, 1, DecodeCount(D))

(* One step of a run-length cursor: ++off >= lens[idx]. *)
CursorWraps(lens, idx, off) == off + 1 >= At(lens, idx)

(* A cursor that never leaves its run. *)
stay_in_run(lens, idx, off) == idx

NextIdx(lens, idx, off) == IF CursorWraps(lens, idx, off) THEN idx + 1 ELSE idx

NextOff(lens, idx, off) == IF CursorWraps(lens, idx, off) THEN 0 ELSE off + 1

(* disassembler_read(D, &chunk[i], n): n nucleotides. *)
RECURSIVE SeqDecodeLoop(_, _, _, _, _)
SeqDecodeLoop(D, i, cnt, readlen_idx, readlen_off) ==
    IF i > cnt THEN D
    ELSE LET n   == At(D.readlen_vals, readlen_idx)
             seq == TakeBytes(D.seqbuf, D.seqbuf_pos, n)
         IN  SeqDecodeLoop(
               [D EXCEPT !.chunk[i].seq = seq,
                         !.seqbuf_pos = Min(Len(D.seqbuf), @ + n),
                         !.seq_crc = crc64_update(seq, @),
                         !.status = IF InArray(D.readlen_vals, readlen_idx)
                                    THEN @ ELSE "range"],
               i + 1, cnt,
               NextIdx(D.readlen_lens, readlen_idx, readlen_off),
               NextOff(D.readlen_lens, readlen_idx, readlen_off))

seq_decompressor_thread(D) ==
    SeqDecodeLoop(D, 1, DecodeCount(D), D.readlen_idx, D.readlen_off)

(* qualenc_decode(E, &chunk[i], n): n quality scores over the base. *)
qualenc_decode(buf, pos, n, base_qual) ==
    [j \in 1..n |-> (TakeBytes(buf, pos, n)[j] + base_qual) % 256]

(* The base the quality decoder holds when it decodes the read at hand:    *)
(* the cursor is stepped, and the base changed, before the read is decoded.*)
QualDecodeBase(D, base_qual, qual_scheme_idx, qual_scheme_off) ==
    IF CursorWraps(D.qual_scheme_lens, qual_scheme_idx, qual_scheme_off)
         /\ qual_scheme_idx + 1 < Len(D.qual_scheme_vals)
    THEN D.qual_scheme_vals[qual_scheme_idx + 2]
    ELSE base_qual

RECURSIVE QualDecodeLoop(_, _, _, _, _, _, _)
QualDecodeLoop(D, i, cnt, readlen_idx, readlen_off, qual_scheme_idx, qual_scheme_off) ==
    IF i > cnt THEN D
    ELSE LET n    == At(D.readlen_vals, readlen_idx)
             base == QualDecodeBase(D, D.base_qual, qual_scheme_idx,
                                    qual_scheme_off)
             qual == qualenc_decode(D.qualbuf, D.qualbuf_pos, n, base)
         IN  QualDecodeLoop(
               [D EXCEPT !.chunk[i].qual = qual,
                         !.dec_base[i] = base,
                         !.base_qual = base,
                         !.qualbuf_pos = Min(Len(D.qualbuf), @ + n),
                         !.qual_crc = crc64_update(qual, @),
                         !.status = IF InArray(D.readlen_vals, readlen_idx)
                                       /\ InArray(D.qual_scheme_lens,
                                                  qual_scheme_idx)
                                    THEN @ ELSE "range"],
               i + 1, cnt,
               NextIdx(D.readlen_lens, readlen_idx, readlen_off),
               NextOff(D.readlen_lens, readlen_idx, readlen_off),
               NextIdx(D.qual_scheme_lens, qual_scheme_idx, qual_scheme_off),
               NextOff(D.qual_scheme_lens, qual_scheme_idx, qual_scheme_off))

qual_decompressor_thread(D) ==
    QualDecodeLoop(D, 1, DecodeCount(D), D.readlen_idx, D.readlen_off,
                   D.qual_scheme_idx, D.qual_scheme_off)

decompressor_thread(t, D) ==
    CASE t = "id"   -> id_decompressor_thread(D)
      [] t = "aux"  -> aux_decompressor_thread(D)
      [] t = "seq"  -> seq_decompressor_thread(D)
      [] t = "qual" -> qual_decompressor_thread(D)

(* A comparison that reports the id sub-stream only. *)
id_warning_only(D) ==
    IF U64(D.id_crc) # D.exp_id_crc THEN << <<"id", D.block_num>> >> ELSE <<>>

(* quip_quip_read, the checksum comparison at the end of a block: the      *)
(* warnings it emits, as (sub-stream, block number).                       *)
ChecksumWarnings(D) ==
    (IF U64(D.id_crc) # D.exp_id_crc THEN << <<"id", D.block_num>> >> ELSE <<>>)
    \o (IF U64(D.aux_crc) # D.exp_aux_crc THEN << <<"aux", D.block_num>> >> ELSE <<>>)
    \o (IF U64(D.seq_crc) # D.exp_seq_crc THEN << <<"seq", D.block_num>> >> ELSE <<>>)
    \o (IF U64(D.qual_crc) # D.exp_qual_crc THEN << <<"qual", D.block_num>> >> ELSE <<>>)

(* quip_quip_read after the four joins: the chunk is handed out and the    *)
(* shared cursors are stepped once per read of the chunk.                  *)
RECURSIVE StepCursors(_, _)
StepCursors(D, k) ==
    IF k = 0 THEN D
    ELSE StepCursors(
           [D EXCEPT
              !.readlen_idx = NextIdx(D.readlen_lens, D.readlen_idx, D.readlen_off),
              !.readlen_off = NextOff(D.readlen_lens, D.readlen_idx, D.readlen_off),
              !.qual_scheme_idx =
                  NextIdx(D.qual_scheme_lens, D.qual_scheme_idx, D.qual_scheme_off),
              !.qual_scheme_off =
                  NextOff(D.qual_scheme_lens, D.qual_scheme_idx, D.qual_scheme_off)],
           k - 1)

read_join(D) ==
    LET len == DecodeCount(D)
    IN  [StepCursors(D, len) EXCEPT
           !.chunk_len = len, !.chunk_pos = 1,
           !.pending_reads = @ - len]


(***************************************************************************)
(* One uninterrupted run of the writer's operations, the workers taken in  *)
(* the order of their creation: the second run that a run with             *)
(* interleaved workers is compared with.                                   *)
(***************************************************************************)
seq_flush_chunk(W) ==
    flush_chunk_join(flush_chunk_totals(
        qual_compressor_thread(seq_compressor_thread(
            aux_compressor_thread(id_compressor_thread(
                update_qual_scheme_guess(W)))))))

seq_write(W, r) ==
    LET W1 == write_head(W)
    IN  short_read_copy(
          IF Len(W1.chunk) = chunk_size THEN seq_flush_chunk(W1) ELSE W1, r)

seq_finish(W) ==
    IF W.finished THEN W
    ELSE finish_tail(IF Len(W.chunk) > 0 THEN seq_flush_chunk(W) ELSE W)

(***************************************************************************)
(* State.                                                                  *)
(*   C      the writer (struct quip_quip_out_t_), its encoders and sink    *)
(*   wpc    where the orchestrating thread of the writer is                *)
(*   wthr   the four encode workers of the chunk being flushed             *)
(*   wctx   the call quip_out_flush_chunk was entered from                 *)
(*   hist   history of the writer: calls made and blocks written           *)
(*   D      the reader (struct quip_quip_in_t_)                            *)
(*   rpc    where the orchestrating thread of the reader is                *)
(*   rthr   the four decode workers                                        *)
(*   rhist  history of the reader: reads returned, warnings                *)
(*   C2     the writer of a second run over the same calls                 *)
(***************************************************************************)
VARIABLES C, wpc, wthr, wctx, hist, D, rpc, rthr, rhist, C2

vars == <<C, wpc, wthr, wctx, hist, D, rpc, rthr, rhist, C2>>

wvars == <<C, wpc, wthr, wctx, hist>>

rvars == <<D, rpc, rthr, rhist>>

NoReader == [status |-> "unopened"]

AllIdle == [t \in Streams |-> "idle"]

AllRunning == [t \in Streams |-> "running"]

(* A join that waits for no worker. *)
none_awaited(thr) == TRUE

(* The resets and starts of the four decoders, counted. *)
NoResets == [t \in Streams |-> 0]

AllDone(thr) == \A t \in Streams : thr[t] = "done"

(* quip_list has not been run. *)
NoList == [status |-> "none", error_msg |-> "none", pos |-> 0, file |-> <<>>]

InitCommon ==
    /\ \E uninit \in UninitU32 :
          hist = [uninit |-> uninit, appended |-> <<>>, late_write |-> FALSE,
                  blk_reads |-> <<>>, blocks |-> <<>>, terms |-> <<>>,
                  enc_base |-> <<>>, qual_first |-> FALSE, ref |-> NoRef,
                  thread_failed |-> FALSE]
    /\ C = quip_quip_out_open(hist.uninit)
    /\ wpc = "idle"
    /\ wthr = AllIdle
    /\ wctx = [caller |-> "none", arg |-> NoRead, totals |-> FALSE]
    /\ D = NoReader
    /\ rpc = "unopened"
    /\ rthr = AllIdle
    /\ rhist = [returned |-> <<>>, bases |-> <<>>, warnings |-> <<>>,
                nulls |-> 0, resets |-> NoResets, starts |-> NoResets,
                list |-> NoList, ref |-> NoRef,
                thread_failed |-> FALSE]

Init == InitCommon /\ C2 = C

InitDet == InitCommon /\ \E uninit \in UninitU32 : C2 = quip_quip_out_open(uninit)

(* What the history keeps of a block: taken when quip_out_flush_block is   *)
(* entered.                                                                *)
BlockInfo(W, h) ==
    [ start |-> Len(W.writer_data),
      reads |-> h.blk_reads,
      buffered_reads |-> W.buffered_reads,
      buffered_bases |-> W.buffered_bases,
      readlen_vals |-> W.readlen_vals, readlen_lens |-> W.readlen_lens,
      qual_scheme_vals |-> W.qual_scheme_vals,
      qual_scheme_lens |-> W.qual_scheme_lens,
      regions |-> <<W.idenc, W.auxenc, W.assembler, W.qualenc.buf>> ]

NoteBlock(h, W, flushed) ==
    IF flushed
    THEN [h EXCEPT !.blocks = Append(@, BlockInfo(W, h)), !.blk_reads = <<>>]
    ELSE h

(* quip_out_flush_chunk up to the creation of the four workers. *)
SpawnChunk(W, h, caller, r) ==
    /\ C' = update_qual_scheme_guess(W)
    /\ wpc' = IF C'.error THEN "failed" ELSE "chunk"
    /\ wthr' = IF C'.error THEN AllIdle ELSE AllRunning
    /\ wctx' = [caller |-> caller, arg |-> r, totals |-> FALSE]
    /\ hist' = [h EXCEPT
                  !.blk_reads = @ \o W.chunk,
                  !.enc_base = @ \o [i \in 1..Len(W.chunk) |->
                                        C'.qualenc.base_qual],
                  !.qual_first = FALSE]

(* A writer that does not remember that it has finished. *)
never_finished(W) == FALSE

(* quip_out_finish: if (C->finished) return; quip_quip_out_close:          *)
(* if (!C->finished) quip_out_finish(C).                                   *)
already_finished(W) == W.finished

NoteTerm(h, W) ==
    LET fb == FinishNeedsBlock(W)
        h1 == NoteBlock(h, W, fb)
        W1 == IF fb THEN quip_out_flush_block(W) ELSE W
    IN  [h1 EXCEPT !.terms = Append(@, Len(W1.writer_data))]

(* quip_quip_write(C, seq) *)
Write(r) ==
    /\ wpc = "idle"
    /\ Len(hist.appended) < MaxReads
    /\ LET W1 == write_head(C)
           h1 == [NoteBlock(hist, C, WriteNeedsBlock(C)) EXCEPT
                    !.appended = Append(@, r),
                    !.late_write = @ \/ C.finished]
       IN  IF Len(W1.chunk) = chunk_size
           THEN SpawnChunk(W1, h1, "write", r)
           ELSE /\ C' = short_read_copy(W1, r)
                /\ hist' = h1
                /\ UNCHANGED <<wpc, wthr, wctx>>
    /\ UNCHANGED rvars

(* quip_out_finish(C) *)
Finish ==
    /\ wpc = "idle"
    /\ IF already_finished(C) THEN UNCHANGED wvars
       ELSE IF Len(C.chunk) > 0
       THEN SpawnChunk(C, hist, "finish", NoRead)
       ELSE /\ C' = finish_tail(C)
            /\ hist' = NoteTerm(hist, C)
            /\ UNCHANGED <<wpc, wthr, wctx>>
    /\ UNCHANGED rvars

(* quip_quip_out_close(C) *)
Close ==
    /\ wpc = "idle"
    /\ IF already_finished(C)
       THEN /\ wpc' = "closed"
            /\ hist' = [hist EXCEPT !.qual_first = FALSE]
            /\ UNCHANGED <<C, wthr, wctx>>
       ELSE IF Len(C.chunk) > 0
       THEN SpawnChunk(C, hist, "close", NoRead)
       ELSE /\ C' = finish_tail(C)
            /\ hist' = [NoteTerm(hist, C) EXCEPT !.qual_first = FALSE]
            /\ wpc' = "closed"
            /\ UNCHANGED <<wthr, wctx>>
    /\ UNCHANGED rvars

(* One of id/aux/seq/qual_compressor_thread runs to its end. *)
EncodeWorker(t) ==
    /\ wpc = "chunk"
    /\ wthr[t] = "running"
    /\ C' = compressor_thread(t, C)
    /\ wthr' = [wthr EXCEPT ![t] = "done"]
    /\ hist' = [hist EXCEPT
                  !.qual_first = @ \/ (t = "qual" /\ wthr["id"] = "running")]
    /\ UNCHANGED <<wpc, wctx>>
    /\ UNCHANGED rvars

(* quip_out_flush_chunk between pthread_create and pthread_join. *)
ChunkTotals ==
    /\ wpc = "chunk"
    /\ ~wctx.totals
    /\ C' = flush_chunk_totals(C)
    /\ wctx' = [wctx EXCEPT !.totals = TRUE]
    /\ UNCHANGED <<wpc, wthr, hist>>
    /\ UNCHANGED rvars

(* The four joins, and what the caller of quip_out_flush_chunk does next. *)
JoinChunk ==
    /\ wpc = "chunk"
    /\ wctx.totals
    /\ AllDone(wthr)
    /\ LET W1 == flush_chunk_join(C)
       IN  IF wctx.caller = "write"
           THEN /\ C' = short_read_copy(W1, wctx.arg)
                /\ hist' = hist
                /\ wpc' = "idle"
           ELSE /\ C' = finish_tail(W1)
                /\ hist' = [NoteTerm(hist, W1) EXCEPT
                              !.qual_first = @ /\ wctx.caller = "finish"]
                /\ wpc' = IF wctx.caller = "close" THEN "closed" ELSE "idle"
    /\ wthr' = AllIdle
    /\ wctx' = [caller |-> "none", arg |-> NoRead, totals |-> FALSE]
    /\ UNCHANGED rvars


(***************************************************************************)
(* The reader's calls, on the container of a closed writer.                *)
(***************************************************************************)
MaxNulls == 2

Stopped(d) == d.status # "ok"

(* quip_quip_in_open(reader, reader_data, opts, NULL) *)
InOpen ==
    /\ wpc = "closed"
    /\ rpc = "unopened"
    /\ D' = quip_quip_in_open(C.writer_data)
    /\ rpc' = IF Stopped(D') THEN "stopped" ELSE "idle"
    /\ UNCHANGED <<rthr, rhist>>
    /\ UNCHANGED wvars

(* A reader that forgets the terminator it has read. *)
terminator_forgotten(d) == FALSE

(* quip_quip_read: if (D->end_of_stream) return NULL. *)
end_of_stream_seen(d) == d.end_of_stream

(* A reader that never resets its decoders. *)
keep_decoders(h) == h

(* quip_quip_read, "reset decoders": idenc, samoptenc and qualenc are      *)
(* reset and started, the disassembler is reset.                           *)
reset_decoders(h) ==
    [h EXCEPT !.resets = [t \in Streams |-> @[t] + 1],
              !.starts = [t \in Streams |-> IF t = "seq" THEN @[t] ELSE @[t] + 1]]

Hand(h, d, i) ==
    [h EXCEPT !.returned = Append(@, d.chunk[i]),
              !.bases = Append(@, d.dec_base[i])]

(* quip_quip_read(D), up to its return or to the creation of the workers. *)
Read ==
    /\ rpc = "idle"
    /\ Len(rhist.returned) <= MaxReads
    /\ rhist.nulls < MaxNulls
    /\ IF D.chunk_pos < D.chunk_len
       THEN /\ D' = [D EXCEPT !.chunk_pos = @ + 1]
            /\ rhist' = Hand(rhist, D, D.chunk_pos + 1)
            /\ UNCHANGED <<rpc, rthr>>
       ELSE IF end_of_stream_seen(D)
       THEN /\ rhist' = [rhist EXCEPT !.nulls = @ + 1]
            /\ UNCHANGED <<D, rpc, rthr>>
       ELSE LET D1 == IF D.pending_reads = 0
                      THEN quip_in_read_block_header(D) ELSE D
                h1 == IF D.pending_reads = 0
                      THEN [rhist EXCEPT !.warnings = @ \o ChecksumWarnings(D)]
                      ELSE rhist
            IN  /\ D' = D1
                /\ IF Stopped(D1)
                   THEN /\ rpc' = "stopped"
                        /\ rhist' = h1
                        /\ rthr' = rthr
                   ELSE IF D1.pending_reads = 0
                   THEN /\ rhist' = [h1 EXCEPT !.nulls = @ + 1]
                        /\ UNCHANGED <<rpc, rthr>>
                   ELSE /\ rpc' = "decoding"
                        /\ rthr' = AllRunning
                        /\ rhist' = IF D.pending_reads = 0
                                     THEN reset_decoders(h1) ELSE h1
    /\ UNCHANGED wvars

(* One of id/aux/seq/qual_decompressor_thread runs to its end. *)
DecodeWorker(t) ==
    /\ rpc = "decoding"
    /\ rthr[t] = "running"
    /\ D' = decompressor_thread(t, D)
    /\ rthr' = [rthr EXCEPT ![t] = "done"]
    /\ UNCHANGED <<rpc, rhist>>
    /\ UNCHANGED wvars

(* quip_quip_read after the four joins. *)
ReadJoin ==
    /\ rpc = "decoding"
    /\ AllDone(rthr)
    /\ D' = read_join(D)
    /\ rpc' = IF Stopped(D) THEN "stopped" ELSE "idle"
    /\ rhist' = IF Stopped(D) THEN rhist ELSE Hand(rhist, D, 1)
    /\ rthr' = AllIdle
    /\ UNCHANGED wvars

Next ==
    \/ (\E r \in ReadSet : Write(r)) /\ UNCHANGED C2
    \/ Finish /\ UNCHANGED C2
    \/ Close /\ UNCHANGED C2
    \/ (\E t \in Streams : EncodeWorker(t)) /\ UNCHANGED C2
    \/ ChunkTotals /\ UNCHANGED C2
    \/ JoinChunk /\ UNCHANGED C2
    \/ InOpen /\ UNCHANGED C2
    \/ Read /\ UNCHANGED C2
    \/ (\E t \in Streams : DecodeWorker(t)) /\ UNCHANGED C2
    \/ ReadJoin /\ UNCHANGED C2

Spec == Init /\ [][Next]_vars

(***************************************************************************)
(* Two runs of the writer over the same calls: C with its workers          *)
(* interleaved, C2 uninterrupted, each with its own malloc'ed memory.      *)
(***************************************************************************)
NextDet ==
    \/ \E r \in ReadSet : Write(r) /\ C2' = seq_write(C2, r)
    \/ Finish /\ C2' = seq_finish(C2)
    \/ Close /\ C2' = seq_finish(C2)
    \/ (\E t \in Streams : EncodeWorker(t)) /\ UNCHANGED C2
    \/ ChunkTotals /\ UNCHANGED C2
    \/ JoinChunk /\ UNCHANGED C2

SpecDet == InitDet /\ [][NextDet]_vars


(***************************************************************************)
(* Notions the properties are stated in.                                   *)
(***************************************************************************)
Out == C.writer_data

(* The 32-bit field at byte offset off of the bytes handed to the outer writer. *)
Field32(off) == Val32(SubSeq(Out, off + 1, off + 4))

Blocks == hist.blocks

ReadsInBlock(b) == Field32(b.start)

BasesInBlock(b) == Field32(b.start + 4)

RECURSIVE Expand(_, _)
Expand(vals, lens) ==
    IF vals = <<>> THEN <<>>
    ELSE [i \in 1..Head(lens) |-> Head(vals)] \o Expand(Tail(vals), Tail(lens))

(* Every quip_quip_write came before the first quip_out_finish. *)
WritesBeforeFinish == ~hist.late_write

(* The reader has returned NULL: it is at the end of the stream. *)
AtEndOfStream == rpc = "idle" /\ rhist.nulls >= 1

(* The never-assigned run count happened to be zero. *)
ZeroedMalloc == hist.uninit = 0

HeaderLen(b) == 8 + 8 * Len(b.readlen_vals) + 5 * Len(b.qual_scheme_vals)

RegionStart(b, i) ==
    b.start + HeaderLen(b) + 64
      + SumSeq([j \in 1..(i - 1) |-> Len(b.regions[j])])

BlockEnd(b) == RegionStart(b, 5)

(* C1: the reads the reader returns up to the end of the stream are the    *)
(* reads passed to quip_quip_write, in the same order and with the same    *)
(* id, sequence, quality and aux.                                          *)
C1_RoundTrip ==
    (AtEndOfStream /\ WritesBeforeFinish /\ ZeroedMalloc)
        => rhist.returned = hist.appended

(* C2: once the writer has finished, the reads_in_block fields of the      *)
(* blocks written sum to the number of reads appended, and at the end of   *)
(* the stream the reader has returned as many reads.                       *)
C2_ReadCountConserved ==
    (C.finished /\ WritesBeforeFinish /\ ZeroedMalloc)
        => /\ SumSeq([k \in 1..Len(Blocks) |-> ReadsInBlock(Blocks[k])])
                = Len(hist.appended)
           /\ AtEndOfStream => Len(rhist.returned) = Len(hist.appended)

(* C3: every read is returned with as many quality bytes as were written   *)
(* for it: the quality decoder is asked for the number of quality scores   *)
(* the encoder was fed.                                                    *)
C3_QualLengthKept ==
    (WritesBeforeFinish /\ ZeroedMalloc)
        => \A k \in 1..Len(rhist.returned) :
              Len(rhist.returned[k].qual) = Len(hist.appended[k].qual)

(* C4: every read is decoded with the quality base it was encoded with,    *)
(* the last read of every quality-scheme run included.                     *)
C4_BaseFaithful ==
    (WritesBeforeFinish /\ ZeroedMalloc)
        => \A k \in 1..Len(rhist.bases) : rhist.bases[k] = hist.enc_base[k]

(* One terminator has been written and it is the last thing written; no   *)
(* block carries a zero reads_in_block.                                    *)
TerminatorOnceAtEnd ==
    /\ Len(hist.terms) = 1
    /\ Len(Out) = hist.terms[1] + 4
    /\ Field32(hist.terms[1]) = 0
    /\ \A k \in 1..Len(Blocks) : ReadsInBlock(Blocks[k]) >= 1

(* C5: after quip_out_finish, whatever sequence of quip_quip_write,        *)
(* quip_out_finish and quip_quip_out_close calls was made, exactly one     *)
(* terminator has been written, nothing was written after it, and every    *)
(* block has reads_in_block >= 1.                                          *)
C5_TerminatorOnce == C.finished => TerminatorOnceAtEnd

(* C6: in every block written the run counts of the read-length pairs sum  *)
(* to reads_in_block and the pairs expand to the sequence lengths of the   *)
(* block's reads in append order; the pairs on the wire are these pairs.   *)
C6_ReadLengthRle ==
    \A k \in 1..Len(Blocks) :
       LET b == Blocks[k]
       IN  /\ SumSeq(b.readlen_lens) = ReadsInBlock(b)
           /\ Expand(b.readlen_vals, b.readlen_lens)
                = [i \in 1..Len(b.reads) |-> Len(b.reads[i].seq)]
           /\ \A i \in 1..Len(b.readlen_vals) :
                 /\ Field32(b.start + 8 * i) = b.readlen_vals[i]
                 /\ Field32(b.start + 8 * i + 4) = b.readlen_lens[i]

C6_Witness ==
    \E k \in 1..Len(Blocks) :
       /\ Len(Blocks[k].reads) > chunk_size
       /\ Len(Blocks[k].readlen_vals) >= 2
       /\ \E i \in 1..Len(Blocks[k].readlen_lens) : Blocks[k].readlen_lens[i] >= 2

(* C7: in every block written, the first one included, the run counts of   *)
(* the quality-scheme pairs sum to reads_in_block.                         *)
C7_QualSchemeRle ==
    \A k \in 1..Len(Blocks) :
       SumSeq(Blocks[k].qual_scheme_lens) = ReadsInBlock(Blocks[k])

(* C8: in every block the four size/CRC records follow the header and      *)
(* carry the sizes the four finish calls returned, the four compressed     *)
(* regions follow in the order id, aux, seq, qual, and the blocks lie on   *)
(* the wire in the order they were flushed.                                *)
C8_RegionOrder ==
    \A k \in 1..Len(Blocks) :
       LET b == Blocks[k]
       IN  /\ \A i \in 1..4 :
                 /\ Field32(b.start + HeaderLen(b) + 16 * (i - 1) + 4)
                       = Len(b.regions[i])
                 /\ SubSeq(Out, RegionStart(b, i) + 1, RegionStart(b, i + 1))
                       = b.regions[i]
           /\ BlockEnd(b) <= Len(Out)
           /\ k < Len(Blocks) => BlockEnd(b) <= Blocks[k + 1].start

C8_Witness ==
    /\ hist.qual_first
    /\ wpc = "idle"
    /\ Len(Blocks) >= 2
    /\ \A i \in 1..4 : Blocks[Len(Blocks)].regions[i] # <<>>

(* C9: two runs of the writer over the same calls hand the same bytes to   *)
(* the outer writer.                                                       *)
C9_Deterministic ==
    (wpc \in {"idle", "closed"}) => C.writer_data = C2.writer_data

(* C10: no block written holds more than block_size bases. *)
C10_BlockWithinLimit ==
    \A k \in 1..Len(Blocks) : BasesInBlock(Blocks[k]) <= block_size


(* The byte at offset off of the bytes handed to the outer writer. *)
Field8(off) == Out[off + 1]

(* The bases of the first j reads of a block. *)
BasesOfPrefix(b, j) == SumSeq([i \in 1..j |-> Len(b.reads[i].seq)])

(* C11: a block whose bases reach exactly block_size at the end of one of  *)
(* its chunks is closed at that count: its bases_in_block is block_size.   *)
C11_ClosesAtLimit ==
    \A k \in 1..Len(Blocks) :
       \A j \in 1..Len(Blocks[k].reads) :
          (j % chunk_size = 0 /\ BasesOfPrefix(Blocks[k], j) = block_size)
              => BasesInBlock(Blocks[k]) = block_size

(* The quality-scheme pairs of a block, read from the bytes written. *)
QualPairsAt(b) ==
    [i \in 1..Len(b.qual_scheme_vals) |->
        << Field8(b.start + 8 + 8 * Len(b.readlen_vals) + 5 * (i - 1)),
           Field32(b.start + 8 + 8 * Len(b.readlen_vals) + 5 * (i - 1) + 1) >>]

ReadLenPairsAt(b) ==
    [i \in 1..Len(b.readlen_vals) |->
        << Field32(b.start + 8 * i), Field32(b.start + 8 * i + 4) >>]

(* One read was appended to a fresh writer and the writer has finished. *)
SingleReadWritten ==
    C.finished /\ WritesBeforeFinish /\ Len(hist.appended) = 1

(* The single block has one read, the bases of r and the pair (L,1). *)
SingleBlockOf(r) ==
    /\ Len(Blocks) = 1
    /\ ReadsInBlock(Blocks[1]) = 1
    /\ BasesInBlock(Blocks[1]) = Len(r.seq)
    /\ ReadLenPairsAt(Blocks[1]) = << <<Len(r.seq), 1>> >>

FitsBang(r) ==
    /\ MinQual(r.qual, TildeQual) >= BangQual
    /\ MaxQual(r.qual, BangQual) < BangQual + qual_scale_size

(* The read of the worked example: id "r1", sequence "ACGT", quality      *)
(* "IIII", no aux; and what a fresh writer hands to the outer writer for   *)
(* it after the container header.                                          *)
ReadACGT == MkRead(<<114, 49>>, <<65, 67, 71, 84>>, <<73, 73, 73, 73>>, <<>>)

BlockHeaderOfACGT(W) ==
    LET W1 == seq_finish(seq_write(W, ReadACGT))
    IN  SubSeq(W1.writer_data, Len(W.writer_data) + 1, Len(W.writer_data) + 21)

(* Nothing has been appended to the writer and it has not finished. *)
FreshWriter == hist.appended = <<>> /\ ~C.finished /\ wpc = "idle"

ContainerHeader ==
    quip_header_magic \o U8(quip_header_version) \o U8(0)
       \o U8(QUIP_FMT_NULL) \o U64(0)

(* Nothing was appended before the writer finished. *)
EmptyInput == C.finished /\ hist.appended = <<>>

(* What holds of an empty input in every state: the output is the header   *)
(* and one zero, no block; the reader has returned nothing, warned of      *)
(* nothing and has no worker.                                              *)
EmptyInputState ==
    EmptyInput =>
       /\ Out = ContainerHeader \o U32(0)
       /\ Blocks = <<>>
       /\ rpc \in {"unopened", "idle"}
       /\ rthr = AllIdle
       /\ rhist.returned = <<>>
       /\ rhist.warnings = <<>>

(* Every quip_quip_read on the container of an empty input, the first one  *)
(* included, returns NULL.                                                 *)
EmptyInputRead ==
    (EmptyInput /\ rpc = "idle" /\ rhist' # rhist)
        => rhist'.nulls = rhist.nulls + 1 /\ rhist'.returned = <<>>

(* C13: open followed directly by finish writes the container header and   *)
(* a single zero and no block; reading that container returns end of       *)
(* stream on the first quip_quip_read, with no read, no worker and no      *)
(* checksum warning.                                                       *)
C13_EmptyInput == []EmptyInputState /\ [][EmptyInputRead]_vars

C13_Witness == EmptyInput /\ rhist.nulls >= 1


(* The bytes of one field over the reads of a block, in append order. *)
FieldBytes(b, f) == Flatten([i \in 1..Len(b.reads) |-> b.reads[i][f]])

(* Where the size/CRC record of the i-th sub-stream (id, aux, seq, qual)   *)
(* of a block lies.                                                        *)
RecordAt(b, i) == b.start + HeaderLen(b) + 16 * (i - 1)

CrcAt(b, i) == SubSeq(Out, RecordAt(b, i) + 9, RecordAt(b, i) + 16)

(* C15: in every block the CRC written for each sub-stream is the CRC from *)
(* 0 over that field of the block's reads in append order; and decoding    *)
(* the container as written raises no checksum warning.                    *)
C15_ChecksumsAgree ==
    /\ \A k \in 1..Len(Blocks) :
          /\ CrcAt(Blocks[k], 1) = U64(crc64_update(FieldBytes(Blocks[k], "id"), 0))
          /\ CrcAt(Blocks[k], 2) = U64(crc64_update(FieldBytes(Blocks[k], "aux"), 0))
          /\ CrcAt(Blocks[k], 3) = U64(crc64_update(FieldBytes(Blocks[k], "seq"), 0))
          /\ CrcAt(Blocks[k], 4) = U64(crc64_update(FieldBytes(Blocks[k], "qual"), 0))
    /\ (WritesBeforeFinish /\ ZeroedMalloc) => rhist.warnings = <<>>


(* The running and the expected CRC of a sub-stream in the reader. *)
RunningCrc(d, t) ==
    CASE t = "id"   -> U64(d.id_crc)
      [] t = "aux"  -> U64(d.aux_crc)
      [] t = "seq"  -> U64(d.seq_crc)
      [] t = "qual" -> U64(d.qual_crc)

ExpectedCrc(d, t) ==
    CASE t = "id"   -> d.exp_id_crc
      [] t = "aux"  -> d.exp_aux_crc
      [] t = "seq"  -> d.exp_seq_crc
      [] t = "qual" -> d.exp_qual_crc

WarningOf(d, t) ==
    IF RunningCrc(d, t) # ExpectedCrc(d, t) THEN << <<t, d.block_num>> >> ELSE <<>>

(* One warning per mismatching sub-stream of the block just finished. *)
Mismatches(d) ==
    WarningOf(d, "id") \o WarningOf(d, "aux") \o WarningOf(d, "seq")
       \o WarningOf(d, "qual")

(* Every read of the current block has been handed to the consumer. *)
BlockHandedOut == D.chunk_pos >= D.chunk_len /\ D.pending_reads = 0

(* A step that adds warnings is a quip_quip_read at the end of a block.    *)
WarningsOnlyAtBlockEnd ==
    (rhist'.warnings # rhist.warnings)
        => rpc = "idle" /\ BlockHandedOut /\ ~D.end_of_stream

(* The quip_quip_read that leaves a block compares the CRCs of that block, *)
(* adds one warning per mismatching sub-stream and reads the next header,  *)
(* whether or not it warned.                                               *)
CompareThenNextHeader ==
    (rpc = "idle" /\ D' # D /\ D.chunk_pos >= D.chunk_len)
        => /\ BlockHandedOut
           /\ rhist'.warnings = rhist.warnings \o Mismatches(D)
           /\ D' = quip_in_read_block_header(D)
           /\ D'.status = "ok"
                => D'.end_of_stream \/ D'.block_num = D.block_num + 1

(* No step takes back a read or a warning. *)
ReturnedKept ==
    /\ Len(rhist'.returned) >= Len(rhist.returned)
    /\ SubSeq(rhist'.returned, 1, Len(rhist.returned)) = rhist.returned
    /\ Len(rhist'.warnings) >= Len(rhist.warnings)
    /\ SubSeq(rhist'.warnings, 1, Len(rhist.warnings)) = rhist.warnings

(* C16: the CRC comparison for a block happens only after all its reads    *)
(* were handed out and before the next header is read; a mismatch adds one *)
(* warning per mismatching sub-stream, the reads returned are kept, and    *)
(* the reader goes on to the next block.                                   *)
C16_WarnAndContinue ==
    [][WarningsOnlyAtBlockEnd /\ CompareThenNextHeader /\ ReturnedKept]_vars

(* A warning for block 1 was given and reads of block 2 were returned. *)
C16_Witness ==
    /\ \E i \in 1..Len(rhist.warnings) : rhist.warnings[i][2] = 1
    /\ Len(Blocks) >= 2
    /\ D.status = "ok"
    /\ D.block_num = 2
    /\ Len(rhist.returned) > Len(Blocks[1].reads)
    /\ ZeroedMalloc


(* C18: every quality byte handed to the quality encoder lies in           *)
(* [base, base + qual_scale_size) for the base set for its chunk; a chunk  *)
(* whose quality bytes span qual_scale_size or more is refused before its  *)
(* workers are created.                                                    *)
C18_QualInAlphabet ==
    \A k \in 1..Len(hist.enc_base) :
       \A j \in 1..Len(hist.appended[k].qual) :
          /\ hist.enc_base[k] <= hist.appended[k].qual[j]
          /\ hist.appended[k].qual[j] < hist.enc_base[k] + qual_scale_size


(***************************************************************************)
(* The reader on files other than the one the writer produced: the         *)
(* container of a few inputs, cut short, with another version or magic     *)
(* byte, with an aux payload, or with one byte of a compressed region      *)
(* changed.                                                                *)
(***************************************************************************)
MaxAux == 2

MaxRegion == 8

TamperInputs == { <<>>, <<ReadHigh>>, <<ReadHigh, ReadHigh, ReadLow, ReadLow>> }

IsPrefix(s, t) == Len(s) <= Len(t) /\ SubSeq(t, 1, Len(s)) = s

SetByte(X, i, v) == [X EXCEPT ![i] = v]

Truncations(X) == { SubSeq(X, 1, p) : p \in 0..(Len(X) - 1) }

OtherVersions(X) == { SetByte(X, 7, v) : v \in {0, 1, 2, 4, 255} }

OtherMagic(X) == { SetByte(X, i, (X[i] + 1) % 256) : i \in 1..6 }

(* The container with an aux payload of n bytes, of which p are there. *)
WithAux(X, n, p) ==
    SubSeq(X, 1, 16) \o <<n>> \o [j \in 1..p |-> 9]
       \o (IF p = n THEN SubSeq(X, 18, Len(X)) ELSE <<>>)

AuxFiles(X) ==
    { WithAux(X, t[1], t[2]) :
        t \in { u \in (1..MaxAux) \X (0..MaxAux) : u[2] <= u[1] } }

(* The offsets, from 1, of the item bytes of a region: in the id and aux   *)
(* regions, whose items are framed by their length, the bytes after each   *)
(* length; in the seq and qual regions every byte.                         *)
RECURSIVE FramedOffsets(_, _)
FramedOffsets(buf, pos) ==
    IF pos >= Len(buf) THEN {}
    ELSE { pos + 1 + j : j \in 1..buf[pos + 1] }
            \cup FramedOffsets(buf, pos + 1 + buf[pos + 1])

ItemOffsets(b, i) ==
    IF i <= 2 THEN FramedOffsets(b.regions[i], 0)
    ELSE 1..Len(b.regions[i])

(* The file with byte j of region i of block k changed. *)
RegionFlip(X, k, i, j) ==
    SetByte(X, RegionStart(Blocks[k], i) + j,
            (X[RegionStart(Blocks[k], i) + j] + 1) % 256)

RegionFlips(X) ==
    { RegionFlip(X, t[1], t[2], t[3]) :
        t \in { u \in (1..Len(Blocks)) \X (1..4) \X (1..MaxRegion) :
                  u[3] \in ItemOffsets(Blocks[u[1]], u[2]) } }

Files(X) ==
    {X} \cup Truncations(X) \cup OtherVersions(X) \cup OtherMagic(X)
        \cup AuxFiles(X) \cup RegionFlips(X)

(* quip_quip_write of the next read of one of the inputs. *)
WriteInput(r) ==
    /\ \E t \in TamperInputs : IsPrefix(Append(hist.appended, r), t)
    /\ Write(r)

(* quip_quip_in_open on one of the files. *)
InOpenFile ==
    /\ wpc = "closed"
    /\ rpc = "unopened"
    /\ \E f \in Files(Out) :
          /\ D' = quip_quip_in_open(f)
          /\ rpc' = IF Stopped(D') THEN "stopped" ELSE "idle"
    /\ UNCHANGED <<rthr, rhist>>
    /\ UNCHANGED wvars

(* quip_list on one of the files. *)
ListFile ==
    /\ wpc = "closed"
    /\ rpc = "unopened"
    /\ \E f \in Files(Out) :
          rhist' = [rhist EXCEPT !.list = quip_list(f)]
    /\ rpc' = "listed"
    /\ UNCHANGED <<D, rthr>>
    /\ UNCHANGED wvars

NextFiles ==
    \/ (\E r \in ReadSet : WriteInput(r)) /\ UNCHANGED C2
    \/ Close /\ UNCHANGED C2
    \/ (\E t \in Streams : EncodeWorker(t)) /\ UNCHANGED C2
    \/ ChunkTotals /\ UNCHANGED C2
    \/ JoinChunk /\ UNCHANGED C2
    \/ InOpenFile /\ UNCHANGED C2
    \/ ListFile /\ UNCHANGED C2
    \/ Read /\ UNCHANGED C2
    \/ (\E t \in Streams : DecodeWorker(t)) /\ UNCHANGED C2
    \/ ReadJoin /\ UNCHANGED C2

SpecFiles == Init /\ [][NextFiles]_vars


(***************************************************************************)
(* The header check of quip_quip_in_open and quip_list.                    *)
(***************************************************************************)
GoodHeader(f) ==
    /\ Len(f) >= 8
    /\ SubSeq(f, 1, 6) = <<255, 81, 85, 73, 80, 0>>
    /\ f[7] \in {2, 3}

HeaderError(st, msg) ==
    st = "error" /\ msg \in {"not a quip file", "different version"}

(* What the header check did with the file f: it raised its error exactly  *)
(* when the header is not a good one, and then nothing after the 8 header  *)
(* bytes had been read.                                                    *)
HeaderChecked(f, st, msg, pos) ==
    /\ HeaderError(st, msg) <=> ~GoodHeader(f)
    /\ HeaderError(st, msg) => pos <= 8
    /\ (st = "error" /\ msg = "different version")
          <=> (Len(f) >= 8 /\ SubSeq(f, 1, 6) = <<255, 81, 85, 73, 80, 0>>
                 /\ f[7] \notin {2, 3})

Opened == rpc \notin {"unopened", "listed"}

Listed == rpc = "listed"

(* C19: the writer emits the version byte 3; quip_quip_in_open and         *)
(* quip_list let a file past their header check iff its first 6 bytes are  *)
(* FF 'Q' 'U' 'I' 'P' 00 and its version byte is 2 or 3, and raise the     *)
(* fatal error for a short header, another magic or another version        *)
(* before anything after the 8 header bytes is read.                       *)
C19_HeaderCheck ==
    /\ Out[7] = 3
    /\ Opened => HeaderChecked(D.reader_data.data, D.status, D.error_msg,
                               D.reader_data.pos)
    /\ Listed => HeaderChecked(rhist.list.file, rhist.list.status,
                               rhist.list.error_msg, rhist.list.pos)

C19_Witness ==
    /\ Opened
    /\ D.error_msg = "different version"
    /\ D.reader_data.data[7] = 1
    /\ D.reader_data.pos <= 8


(***************************************************************************)
(* Files that end inside a field.                                          *)
(***************************************************************************)
ReaderFile == D.reader_data.data

(* The file is the writer's container cut short: every byte of the         *)
(* container lies in a field, so the file ends inside one.                 *)
CutShort == IsPrefix(ReaderFile, Out) /\ Len(ReaderFile) < Len(Out)

(* C20: in the reader a short read inside a declared field is the fatal    *)
(* "Unexpected end of file" error, for the numeric fields, for the aux     *)
(* payload of n_aux bytes of the container header and for the four         *)
(* compressed regions of a block: a reader that has not failed holds the   *)
(* whole aux payload, and has not reached the end of the stream of a file  *)
(* that was cut short.                                                     *)
C20_NoPartialField ==
    (Opened /\ D.status = "ok")
        => /\ Len(D.aux_data) = D.aux_data_n
           /\ CutShort => ~D.end_of_stream


(***************************************************************************)
(* What the reader decoded against what the writer encoded, per block and  *)
(* per sub-stream.                                                         *)
(***************************************************************************)
(* The reads returned before those of block k. *)
BlockFirst(k) == SumSeq([j \in 1..(k - 1) |-> Len(Blocks[j].reads)])

EncodedBytes(k, t) == FieldBytes(Blocks[k], t)

DecodedBytes(k, t) ==
    Flatten([i \in 1..Len(Blocks[k].reads) |->
                rhist.returned[BlockFirst(k) + i][t]])

(* The (sub-stream, block) pairs whose decoded bytes are not the encoded.  *)
Corrupt ==
    { w \in Streams \X (1..Len(Blocks)) :
         DecodedBytes(w[2], w[1]) # EncodedBytes(w[2], w[1]) }

(* C17: a reader that reached the end of the stream has returned as many   *)
(* reads as were written, and if the decoded bytes of exactly one          *)
(* sub-stream of one block k differ from what was encoded it has emitted   *)
(* exactly one checksum warning, for that sub-stream and block k: none for *)
(* the other sub-streams of block k, none for another block.               *)
C17_CorruptionIsolated ==
    AtEndOfStream
        => /\ Len(rhist.returned) = Len(hist.appended)
           /\ \A w \in Streams \X (1..Len(Blocks)) :
                 Corrupt = {w} => rhist.warnings = <<w>>

C17_Witness ==
    /\ AtEndOfStream
    /\ ZeroedMalloc
    /\ Len(Blocks) = 2
    /\ ReaderFile = RegionFlip(Out, 1, 4, 3)
    /\ Corrupt = {<<"qual", 1>>}
    /\ rhist.warnings = << <<"qual", 1>> >>
    /\ Len(rhist.returned) = 4


(***************************************************************************)
(* Containers written with a reference and opened with the same, another   *)
(* or no reference.                                                        *)
(***************************************************************************)
MaxSeqs == 2

(* Named sequences that differ in content only, in name, in length and in  *)
(* the length of the name.                                                 *)
NamedSeqs ==
    { [seqname |-> <<97>>, seq |-> <<0>>],
      [seqname |-> <<97>>, seq |-> <<1>>],
      [seqname |-> <<98>>, seq |-> <<0>>],
      [seqname |-> <<97>>, seq |-> <<0, 0>>],
      [seqname |-> <<97, 98>>, seq |-> <<0>>] }

SeqTables == UNION { [1..n -> NamedSeqs] : n \in 0..MaxSeqs }

Refs == { MkRef(fn, t) : fn \in {<<>>, <<102>>}, t \in SeqTables }

InitRef ==
    /\ \E uninit \in UninitU32, ref \in Refs \cup {NoRef} :
          /\ hist = [uninit |-> uninit, appended |-> <<>>,
                     late_write |-> FALSE, blk_reads |-> <<>>,
                     blocks |-> <<>>, terms |-> <<>>, enc_base |-> <<>>,
                     qual_first |-> FALSE, ref |-> ref,
                     thread_failed |-> FALSE]
          /\ C = quip_quip_out_open_ref(uninit, ref)
    /\ wpc = "idle"
    /\ wthr = AllIdle
    /\ wctx = [caller |-> "none", arg |-> NoRead, totals |-> FALSE]
    /\ D = NoReader
    /\ rpc = "unopened"
    /\ rthr = AllIdle
    /\ rhist = [returned |-> <<>>, bases |-> <<>>, warnings |-> <<>>,
                nulls |-> 0, resets |-> NoResets, starts |-> NoResets,
                list |-> NoList, ref |-> NoRef,
                thread_failed |-> FALSE]
    /\ C2 = C

(* The files opened with the reference ref: the container, and with the    *)
(* writer's own reference also the container cut short.                    *)
RefFiles(ref) ==
    IF ref = hist.ref THEN {Out} \cup Truncations(Out) ELSE {Out}

(* quip_quip_in_open(reader, reader_data, opts, ref) *)
InOpenRef ==
    /\ wpc = "closed"
    /\ rpc = "unopened"
    /\ \E ref \in Refs \cup {NoRef}, stale \in BOOLEAN :
          \E f \in RefFiles(ref) :
             /\ D' = quip_quip_in_open_ref(f, ref, stale)
             /\ rhist' = [rhist EXCEPT !.ref = ref]
             /\ rpc' = IF Stopped(D') THEN "stopped" ELSE "idle"
    /\ UNCHANGED rthr
    /\ UNCHANGED wvars

NextRef ==
    \/ Close /\ UNCHANGED C2
    \/ InOpenRef /\ UNCHANGED C2
    \/ Read /\ UNCHANGED C2

SpecRef == InitRef /\ [][NextRef]_vars


(* The stored table of names and lengths is that of the reference R. *)
SameTable(W, R) ==
    /\ Len(W.seqs) = Len(R.seqs)
    /\ \A i \in 1..Len(W.seqs) :
          /\ W.seqs[i].seqname = R.seqs[i].seqname
          /\ twobit_len(W.seqs[i].seq) = twobit_len(R.seqs[i].seq)

RefDiffers(W, R) == seqmap_crc64(W) # seqmap_crc64(R) \/ ~SameTable(W, R)

(* Where the reference section written by seqmap_write_quip_header_info    *)
(* ends in the container.                                                  *)
RefSectionEnd == 8 + Len(seqmap_write_quip_header_info(hist.ref))

(* C21: on a container with the REFERENCE flag, quip_quip_in_open without  *)
(* a reference fails fatally before any block header is read; with a       *)
(* reference it fails fatally whenever the stored CRC, the sequence count  *)
(* or a sequence name or length differs from the reference given, and      *)
(* otherwise it consumes exactly the reference section: the aux fields and *)
(* the first block header are read from where the section ends.            *)
C21_ReferenceCheck ==
    (Opened /\ ReaderFile = Out /\ ~hist.ref.null)
        => IF rhist.ref.null
           THEN /\ D.status = "error" /\ D.error_msg = "reference needed"
                /\ D.reader_data.pos <= 8
           ELSE IF RefDiffers(hist.ref, rhist.ref)
           THEN /\ D.status = "error" /\ D.error_msg = "incorrect reference"
                /\ D.reader_data.pos <= RefSectionEnd
           ELSE /\ D.status = "ok"
                /\ D.reader_data.pos =
                      IF D.end_of_stream THEN Len(Out) ELSE RefSectionEnd + 9

C21_Witness ==
    /\ Opened
    /\ ReaderFile = Out
    /\ Len(hist.ref.seqs) = 2
    /\ SameTable(hist.ref, rhist.ref)
    /\ hist.ref.seqs[2].seq # rhist.ref.seqs[2].seq
    /\ D.error_msg = "incorrect reference"


(***************************************************************************)
(* Runs in which pthread_create or pthread_join of a worker fails.         *)
(***************************************************************************)
(* The order in which the four workers are created and joined. *)
ThreadOrder == <<"id", "aux", "seq", "qual">>

ThreadIndex(t) == CHOOSE i \in 1..4 : ThreadOrder[i] = t

Before(t) == { ThreadOrder[i] : i \in 1..(ThreadIndex(t) - 1) }

(* Return values of pthread_create and pthread_join other than 0. *)
PthreadErrors == {11, 22}

(* A wrapper that returns although the call failed. *)
create_returns(ret) == FALSE

(* pthread_create_or_die and pthread_join_or_die: whether quip_error is    *)
(* called.                                                                 *)
pthread_create_or_die(ret) == ret # 0

pthread_join_or_die(ret) == ret # 0

(* quip_out_flush_chunk: pthread_create of worker t fails.  The workers    *)
(* created before t may have run; t and those after it have not.           *)
EncodeCreateFails(t) ==
    /\ wpc = "chunk"
    /\ ~wctx.totals
    /\ \A u \in Streams \ Before(t) : wthr[u] = "running"
    /\ \E ret \in PthreadErrors :
          IF pthread_create_or_die(ret)
          THEN C' = [C EXCEPT !.error = TRUE] /\ wpc' = "failed"
          ELSE UNCHANGED <<C, wpc>>
    /\ hist' = [hist EXCEPT !.thread_failed = TRUE]
    /\ UNCHANGED <<wthr, wctx>>
    /\ UNCHANGED rvars

(* quip_out_flush_chunk: pthread_join of worker t fails, those before t    *)
(* having been joined.                                                     *)
EncodeJoinFails(t) ==
    /\ wpc = "chunk"
    /\ wctx.totals
    /\ \A u \in Before(t) : wthr[u] = "done"
    /\ \E ret \in PthreadErrors :
          IF pthread_join_or_die(ret)
          THEN C' = [C EXCEPT !.error = TRUE] /\ wpc' = "failed"
          ELSE UNCHANGED <<C, wpc>>
    /\ hist' = [hist EXCEPT !.thread_failed = TRUE]
    /\ UNCHANGED <<wthr, wctx>>
    /\ UNCHANGED rvars

(* quip_quip_read: pthread_create of decode worker t fails. *)
DecodeCreateFails(t) ==
    /\ rpc = "decoding"
    /\ \A u \in Streams \ Before(t) : rthr[u] = "running"
    /\ \E ret \in PthreadErrors :
          IF pthread_create_or_die(ret)
          THEN D' = quip_error(D, "pthread_create error") /\ rpc' = "stopped"
          ELSE UNCHANGED <<D, rpc>>
    /\ rhist' = [rhist EXCEPT !.thread_failed = TRUE]
    /\ UNCHANGED rthr
    /\ UNCHANGED wvars

(* quip_quip_read: pthread_join of decode worker t fails. *)
DecodeJoinFails(t) ==
    /\ rpc = "decoding"
    /\ \A u \in Before(t) : rthr[u] = "done"
    /\ \E ret \in PthreadErrors :
          IF pthread_join_or_die(ret)
          THEN D' = quip_error(D, "pthread_join error") /\ rpc' = "stopped"
          ELSE UNCHANGED <<D, rpc>>
    /\ rhist' = [rhist EXCEPT !.thread_failed = TRUE]
    /\ UNCHANGED rthr
    /\ UNCHANGED wvars

NextThreads ==
    \/ (\E r \in ReadSet : WriteInput(r)) /\ UNCHANGED C2
    \/ Close /\ UNCHANGED C2
    \/ (\E t \in Streams : EncodeWorker(t)) /\ UNCHANGED C2
    \/ ChunkTotals /\ UNCHANGED C2
    \/ JoinChunk /\ UNCHANGED C2
    \/ (\E t \in Streams : EncodeCreateFails(t)) /\ UNCHANGED C2
    \/ (\E t \in Streams : EncodeJoinFails(t)) /\ UNCHANGED C2
    \/ InOpen /\ UNCHANGED C2
    \/ Read /\ UNCHANGED C2
    \/ (\E t \in Streams : DecodeWorker(t)) /\ UNCHANGED C2
    \/ ReadJoin /\ UNCHANGED C2
    \/ (\E t \in Streams : DecodeCreateFails(t)) /\ UNCHANGED C2
    \/ (\E t \in Streams : DecodeJoinFails(t)) /\ UNCHANGED C2

SpecThreads == Init /\ [][NextThreads]_vars

(* The chunk being flushed when the call failed lies in no block. *)
FailedChunkUnwritten ==
    hist.thread_failed
        => /\ C.chunk # <<>>
           /\ Len(hist.blk_reads) >= Len(C.chunk)
           /\ SubSeq(hist.blk_reads,
                     Len(hist.blk_reads) - Len(C.chunk) + 1,
                     Len(hist.blk_reads)) = C.chunk
           /\ SumSeq([k \in 1..Len(Blocks) |-> Len(Blocks[k].reads)])
                 + Len(hist.blk_reads)
                 + (IF wctx.caller = "write" THEN 1 ELSE 0)
                 = Len(hist.appended)

(* From the failure on the outer writer receives nothing: no block, no     *)
(* terminator.                                                             *)
NothingWrittenAfterFailure ==
    hist'.thread_failed
        => /\ C'.writer_data = C.writer_data
           /\ hist'.blocks = hist.blocks
           /\ hist'.terms = hist.terms

(* From the failure on the consumer is handed nothing. *)
NothingReturnedAfterFailure ==
    rhist'.thread_failed
        => /\ rhist'.returned = rhist.returned
           /\ rpc' = "stopped"

(* C22: when the creation or the join of one of the four workers of a      *)
(* chunk fails the run ends: the encoder writes no block holding that      *)
(* chunk and no terminator afterwards, the decoder returns no read of      *)
(* that chunk.                                                             *)
C22_ThreadFailureFatal ==
    /\ []FailedChunkUnwritten
    /\ [][NothingWrittenAfterFailure /\ NothingReturnedAfterFailure]_vars

C22_Witness ==
    /\ hist.thread_failed
    /\ wpc = "failed"
    /\ Len(Blocks) >= 1
    /\ wthr["id"] = "done"
    /\ wthr["qual"] = "running"


(***************************************************************************)
(* quip_list and the reader on the same container.                         *)
(***************************************************************************)
(* quip_list on the container the writer produced. *)
ListOut ==
    /\ wpc = "closed"
    /\ rpc = "unopened"
    /\ rhist.list = NoList
    /\ rhist' = [rhist EXCEPT !.list = quip_list(Out)]
    /\ UNCHANGED <<D, rpc, rthr>>
    /\ UNCHANGED wvars

NextList ==
    \/ (\E r \in ReadSet : WriteInput(r)) /\ UNCHANGED C2
    \/ Finish /\ UNCHANGED C2
    \/ Close /\ UNCHANGED C2
    \/ (\E t \in Streams : EncodeWorker(t)) /\ UNCHANGED C2
    \/ ChunkTotals /\ UNCHANGED C2
    \/ JoinChunk /\ UNCHANGED C2
    \/ ListOut /\ UNCHANGED C2
    \/ InOpen /\ UNCHANGED C2
    \/ Read /\ UNCHANGED C2
    \/ (\E t \in Streams : DecodeWorker(t)) /\ UNCHANGED C2
    \/ ReadJoin /\ UNCHANGED C2

SpecList == Init /\ [][NextList]_vars

ListedOut == rhist.list # NoList

(* The offset of the four size records of the written block b. *)
SizeRecords(b) ==
    b.start + 8 + 8 * Len(b.readlen_vals) + 5 * Len(b.qual_scheme_vals)

(* The uncompressed (j = 0) or compressed (j = 1) size of sub-stream k in  *)
(* the header of the written block b.                                      *)
HeaderSize(b, k, j) ==
    Val32(SubSeq(Out, SizeRecords(b) + 16 * k + 4 * j + 1,
                 SizeRecords(b) + 16 * k + 4 * j + 4))

HeaderSizeSum(k, j) ==
    SumSeq([i \in 1..Len(Blocks) |-> HeaderSize(Blocks[i], k, j)])

(* What quip_list reported against the blocks the writer wrote. *)
ListTotals ==
    LET l == rhist.list
    IN  /\ l.status = "ok"
        /\ hist.terms # <<>> /\ l.pos = hist.terms[1] + 4
        /\ l.num_blocks = Len(Blocks)
        /\ l.num_reads
              = SumSeq([i \in 1..Len(Blocks) |-> Blocks[i].buffered_reads])
        /\ l.num_bases
              = SumSeq([i \in 1..Len(Blocks) |-> Blocks[i].buffered_bases])
        /\ l.id_bytes = <<HeaderSizeSum(0, 0), HeaderSizeSum(0, 1)>>
        /\ l.aux_bytes = <<HeaderSizeSum(1, 0), HeaderSizeSum(1, 1)>>
        /\ l.seq_bytes = <<HeaderSizeSum(2, 0), HeaderSizeSum(2, 1)>>
        /\ l.qual_bytes = <<HeaderSizeSum(3, 0), HeaderSizeSum(3, 1)>>

(* The reader stands where quip_list stood after the same number of        *)
(* blocks, and after the terminator.                                       *)
ReaderAtListPosition ==
    LET l == rhist.list
    IN  IF D.end_of_stream
        THEN D.reader_data.pos = l.pos /\ D.block_num = l.num_blocks
        ELSE /\ D.block_num + 1 <= Len(l.ends)
             /\ D.reader_data.pos = l.ends[D.block_num + 1]

(* C23: on every container the writer produced quip_list consumes per      *)
(* block the bytes the reader consumes, stops at the terminator, and       *)
(* reports the number of blocks written, the sums of reads_in_block and of *)
(* bases_in_block, and per sub-stream the sums of the uncompressed and     *)
(* compressed sizes of the block headers.                                  *)
C23_ListMatchesReader ==
    ListedOut => /\ ListTotals
                 /\ Opened => ReaderAtListPosition


(***************************************************************************)
(* The encode workers against the orchestrating thread.                    *)
(***************************************************************************)
WorkerRunning == \E t \in Streams : wthr[t] = "running"

(* The offsets at which the output is complete: after the container        *)
(* header, after a whole block, after a terminator.                        *)
CompleteEnds ==
    {Len(quip_quip_out_open(hist.uninit).writer_data)}
        \cup { BlockEnd(Blocks[i]) : i \in 1..Len(Blocks) }
        \cup { hist.terms[i] + 4 : i \in 1..Len(hist.terms) }

(* No worker exists outside quip_out_flush_chunk. *)
WorkersJoinedOnReturn == wpc # "chunk" => wthr = AllIdle

(* While a worker runs the output ends with a whole block. *)
PreviousBlockWhole == WorkerRunning => Len(Out) \in CompleteEnds

(* Nothing is written while a worker runs. *)
NoWriteWhileWorkerRuns == Out' # Out => ~WorkerRunning

(* quip_out_flush_chunk returns after its four workers are done. *)
ReturnAfterJoin == (wpc = "chunk" /\ wpc' # "chunk") => AllDone(wthr)

(* C24: quip_out_flush_block never runs while an encode worker runs, every *)
(* worker of a chunk is joined before quip_out_flush_chunk returns, and a  *)
(* later chunk's workers start only when the block before is written       *)
(* whole.                                                                  *)
C24_BlocksSerialized ==
    /\ [](WorkersJoinedOnReturn /\ PreviousBlockWhole)
    /\ [][NoWriteWhileWorkerRuns /\ ReturnAfterJoin]_vars

C24_Witness ==
    /\ Len(Blocks) >= 1
    /\ Len(Out) = BlockEnd(Blocks[Len(Blocks)])
    /\ wthr["id"] = "done"
    /\ wthr["qual"] = "running"


(* A step of one of the encode workers. *)
WorkerStep == \E t \in Streams : wthr[t] = "running" /\ wthr'[t] = "done"

(* The bytes the four codecs hold back until the block is flushed. *)
CodecBuffers(W) == <<W.idenc, W.auxenc, W.assembler, W.qualenc.buf>>

(* A worker hands nothing to the outer writer: its bytes stay with its     *)
(* codec.                                                                  *)
WorkerKeepsBytes ==
    WorkerStep => /\ C'.writer_data = C.writer_data
                  /\ \A k \in 1..4 :
                        IsPrefix(CodecBuffers(C)[k], CodecBuffers(C')[k])

(* The orchestrator's steps while a worker runs write nothing either. *)
OrchestratorQuiet ==
    (WorkerRunning /\ ~WorkerStep) => C'.writer_data = C.writer_data

(* While a worker runs the orchestrator is inside quip_out_flush_chunk. *)
OrchestratorInFlushChunk ==
    WorkerRunning => wpc = "chunk" /\ wctx.caller \in {"write", "finish", "close"}

(* C25: in every state in which an encode worker runs no call of the outer *)
(* writer is in progress, and none is started by a worker or by the        *)
(* orchestrator.                                                           *)
C25_WriterOnlyOrchestrator ==
    /\ []OrchestratorInFlushChunk
    /\ [][WorkerKeepsBytes /\ OrchestratorQuiet]_vars

C25_Witness ==
    /\ wthr["id"] = "done"
    /\ wthr["seq"] = "running"
    /\ C.idenc # <<>>
    /\ Blocks = <<>>
    /\ Out = quip_quip_out_open(hist.uninit).writer_data


(* The fields of the writer each thread assigns between the creation and   *)
(* the join of the workers; "main" is the orchestrator.                    *)
OwnFields(t) ==
    CASE t = "id"   -> {"idenc", "id_crc"}
      [] t = "aux"  -> {"auxenc", "aux_crc"}
      [] t = "seq"  -> {"assembler", "seq_crc"}
      [] t = "qual" -> {"qualenc", "qual_crc"}
      [] t = "main" -> {"readlen_vals", "readlen_lens", "id_bytes",
                        "aux_bytes", "qual_bytes", "seq_bytes",
                        "buffered_bases", "total_bases", "buffered_reads",
                        "total_reads"}

(* A step taken between the creation of the workers and their join. *)
InWindow == wpc = "chunk" /\ wpc' = "chunk" /\ C' # C

(* The thread taking the step. *)
StepThread ==
    IF WorkerStep
    THEN CHOOSE t \in Streams : wthr[t] = "running" /\ wthr'[t] = "done"
    ELSE "main"

ChangedFields == { f \in DOMAIN C : C'[f] # C[f] }

(* The step assigns only fields of the thread that takes it. *)
WritesOwnOnly == ChangedFields \subseteq OwnFields(StepThread)

(* What a thread that has not run yet will compute is the same before and  *)
(* after the step: it reads nothing the step assigned.                     *)
OthersUnaffected ==
    /\ \A t \in Streams :
          wthr'[t] = "running"
             => LET after  == compressor_thread(t, C')
                    before == compressor_thread(t, C)
                IN  \A f \in OwnFields(t) : after[f] = before[f]
    /\ ~wctx'.totals
          => LET after  == flush_chunk_totals(C')
                 before == flush_chunk_totals(C)
             IN  \A f \in OwnFields("main") : after[f] = before[f]

(* The chunk is left alone until quip_out_flush_chunk has joined. *)
ChunkUntouched == C'.chunk = C.chunk /\ C.chunk # <<>>

FieldsDisjoint ==
    \A t, u \in Streams \cup {"main"} :
       t # u => OwnFields(t) \cap OwnFields(u) = {}

(* C26: between the creation and the join of a chunk's four encode workers *)
(* each thread assigns only its own fields, no thread reads a field        *)
(* another assigns, and the chunk and chunk_len stay as they are.          *)
C26_NoDataRace ==
    /\ []FieldsDisjoint
    /\ [][InWindow => WritesOwnOnly /\ OthersUnaffected /\ ChunkUntouched]_vars

C26_Witness ==
    /\ wpc = "chunk"
    /\ wctx.totals
    /\ wthr["qual"] = "done"
    /\ wthr["id"] = "running"
    /\ C.readlen_vals # <<>>
    /\ Len(C.chunk) = chunk_size


(***************************************************************************)
(* quip_out_flush_chunk: the read lengths and the block totals.            *)
(***************************************************************************)
ChunkField(W, f) == [i \in 1..Len(W.chunk) |-> Len(W.chunk[i][f])]

(* The orchestrator's loop over the chunk and the two read counts. *)
TotalsStep == wpc = "chunk" /\ ~wctx.totals /\ wctx'.totals

ReadlenCount(W) == SumSeq(W.readlen_lens)

(* The step adds the chunk, whatever the workers have done so far. *)
TotalsAdded ==
    TotalsStep
       => /\ Expand(C'.readlen_vals, C'.readlen_lens)
               = Expand(C.readlen_vals, C.readlen_lens) \o ChunkField(C, "seq")
          /\ C'.id_bytes = C.id_bytes + SumSeq(ChunkField(C, "id"))
          /\ C'.aux_bytes = C.aux_bytes + SumSeq(ChunkField(C, "aux"))
          /\ C'.seq_bytes = C.seq_bytes + SumSeq(ChunkField(C, "seq"))
          /\ C'.qual_bytes = C.qual_bytes + SumSeq(ChunkField(C, "qual"))
          /\ C'.buffered_bases = C.buffered_bases + SumSeq(ChunkField(C, "seq"))
          /\ C'.total_bases = C.total_bases + SumSeq(ChunkField(C, "seq"))
          /\ C'.buffered_reads = C.buffered_reads + Len(C.chunk)
          /\ C'.total_reads = C.total_reads + Len(C.chunk)

(* Nothing else adds to the read lengths or to the totals. *)
TotalsOnlyInFlushChunk ==
    (\/ C'.total_reads # C.total_reads
     \/ C'.total_bases # C.total_bases
     \/ ReadlenCount(C') > ReadlenCount(C)
     \/ C'.buffered_reads > C.buffered_reads
     \/ C'.id_bytes > C.id_bytes) => TotalsStep

(* quip_out_flush_chunk returns with the totals updated. *)
TotalsBeforeReturn == (wpc = "chunk" /\ wpc' # "chunk") => wctx.totals

(* C27 as amended: the read lengths and the block totals of a chunk are    *)
(* added by the orchestrator once, after the workers are created and       *)
(* before they are joined, with values that depend on the chunk alone.     *)
C27_TotalsInsideFlushChunk ==
    [][TotalsAdded /\ TotalsOnlyInFlushChunk /\ TotalsBeforeReturn]_vars

(* C27: the read-length RLE and the block totals are updated only after    *)
(* all four workers of the chunk have completed.                           *)
C27_TotalsAfterWorkers == [][TotalsStep => AllDone(wthr)]_vars

C27_Witness ==
    /\ wpc = "chunk"
    /\ wctx.totals
    /\ wthr = AllRunning
    /\ C.buffered_reads = Len(C.chunk)
    /\ ReadlenCount(C) = Len(C.chunk)
    /\ Len(C.chunk) = chunk_size


(***************************************************************************)
(* update_qual_scheme_guess on chunks of several quality ranges.           *)
(***************************************************************************)
(* A read whose quality bytes '<' and 'd' start inside the range of the    *)
(* run of '!' and end above it.                                            *)
ReadMid == MkRead(<<51>>, <<65, 67>>, <<60, 100>>, <<>>)

GuessInputs ==
    { <<ReadMid, ReadLow, ReadHigh, ReadLow>>,
      <<ReadLow, ReadMid, ReadNoQual, ReadNoQual>>,
      <<ReadNoQual, ReadNoQual, ReadMid, ReadMid>>,
      <<ReadHigh, ReadHigh, ReadMid, ReadLow>> }

(* quip_quip_write of the next read of one of these inputs. *)
WriteGuess(r) ==
    /\ \E t \in GuessInputs : IsPrefix(Append(hist.appended, r), t)
    /\ Write(r)

NextGuess ==
    \/ (\E r \in ReadSet \cup {ReadMid} : WriteGuess(r)) /\ UNCHANGED C2
    \/ Finish /\ UNCHANGED C2
    \/ Close /\ UNCHANGED C2
    \/ (\E t \in Streams : EncodeWorker(t)) /\ UNCHANGED C2
    \/ ChunkTotals /\ UNCHANGED C2
    \/ JoinChunk /\ UNCHANGED C2

SpecGuess == Init /\ [][NextGuess]_vars

(* quip_out_flush_chunk is entered and creates its workers. *)
SpawnStep == wpc = "idle" /\ wpc' = "chunk"

(* Whether the step wrote a block before it flushed the chunk. *)
BlockFlushedFirst == Len(hist'.blocks) > Len(hist.blocks)

(* What the quality-scheme RLE and the codec's base are after the step,    *)
(* given whether a run is opened.                                          *)
GuessOutcome(opened) ==
    LET base == Last(C.qual_scheme_vals)
        n0   == IF BlockFlushedFirst THEN 1 ELSE Len(C.qual_scheme_vals)
        c0   == IF BlockFlushedFirst THEN 0 ELSE Last(C.qual_scheme_lens)
        minq == MinQual(ChunkQuals(C), TildeQual)
    IN  /\ wthr' = AllRunning
        /\ C'.qualenc.buf = IF BlockFlushedFirst THEN <<>> ELSE C.qualenc.buf
        /\ C'.qualenc.base_qual = Last(C'.qual_scheme_vals)
        /\ IF opened
           THEN /\ Len(C'.qual_scheme_vals) = n0 + 1
                /\ Last(C'.qual_scheme_vals) = minq
                /\ Last(C'.qual_scheme_lens) = Len(C.chunk)
           ELSE /\ Len(C'.qual_scheme_vals) = n0
                /\ Last(C'.qual_scheme_vals) = base
                /\ Last(C'.qual_scheme_lens) = c0 + Len(C.chunk)

(* The base the codec was told stays that of the last run while the        *)
(* workers exist.                                                          *)
BaseToldBeforeWorkers ==
    wpc = "chunk" => C.qualenc.base_qual = Last(C.qual_scheme_vals)

(* C28 as amended: a run is opened exactly when the chunk's lowest quality *)
(* byte is below the current base or its highest is at or above base +     *)
(* qual_scale_size (lowest '~' and highest '!' for a chunk without quality *)
(* bytes); otherwise the current run grows by the chunk's read count; the  *)
(* codec is told the base of the covering run before any worker starts.    *)
C28_RunOpenedByMinOrMax ==
    /\ []BaseToldBeforeWorkers
    /\ [][SpawnStep =>
            GuessOutcome(
              \/ MinQual(ChunkQuals(C), TildeQual) < Last(C.qual_scheme_vals)
              \/ MaxQual(ChunkQuals(C), BangQual)
                    >= Last(C.qual_scheme_vals) + qual_scale_size)]_vars

(* C28: a run is opened exactly when the chunk's lowest quality byte is    *)
(* below the current base or above base + qual_scale_size - 1; stated for  *)
(* the chunks that have quality bytes spanning less than qual_scale_size.  *)
C28_RunOpenedByMin ==
    [][(/\ SpawnStep
        /\ ChunkQuals(C) # <<>>
        /\ MaxQual(ChunkQuals(C), BangQual) - MinQual(ChunkQuals(C), TildeQual)
              < qual_scale_size)
         => GuessOutcome(
              \/ MinQual(ChunkQuals(C), TildeQual) < Last(C.qual_scheme_vals)
              \/ MinQual(ChunkQuals(C), TildeQual)
                    > Last(C.qual_scheme_vals) + qual_scale_size - 1)]_vars

C28_Witness ==
    /\ wpc = "chunk"
    /\ wthr = AllRunning
    /\ ChunkQuals(C) = <<60, 100, 60, 100>>
    /\ C.qual_scheme_vals = <<BangQual, 60>>
    /\ C.qualenc.base_qual = 60
    /\ Last(C.qual_scheme_lens) = chunk_size


(***************************************************************************)
(* quip_out_flush_block: the state it leaves.                              *)
(***************************************************************************)
(* A step in which quip_out_flush_block is called. *)
BlockFlushStep == Len(hist'.blocks) > Len(hist.blocks)

(* The writer when quip_out_flush_block is entered: quip_quip_write calls  *)
(* it first, quip_out_finish after quip_out_flush_chunk.                   *)
AtFlushEntry == IF wpc = "chunk" THEN flush_chunk_join(C) ELSE C

(* W is what quip_out_flush_block leaves of V. *)
ResetAfterFlush(V, W) ==
    /\ W.buffered_reads = 0 /\ W.buffered_bases = 0
    /\ W.id_bytes = 0 /\ W.aux_bytes = 0
    /\ W.seq_bytes = 0 /\ W.qual_bytes = 0
    /\ W.id_crc = 0 /\ W.aux_crc = 0 /\ W.seq_crc = 0 /\ W.qual_crc = 0
    /\ W.readlen_vals = <<>> /\ W.readlen_lens = <<>>
    /\ W.qual_scheme_vals = <<Last(V.qual_scheme_vals)>>
    /\ W.qual_scheme_lens = <<0>>
    /\ W.chunk = V.chunk
    /\ W.total_reads = V.total_reads /\ W.total_bases = V.total_bases

(* The step ends in what the rest of the call makes of that state. *)
CarriedInto(W) ==
    /\ IsPrefix(W.writer_data, C'.writer_data)
    /\ C'.buffered_reads = 0 /\ C'.buffered_bases = 0
    /\ C'.id_bytes = 0 /\ C'.id_crc = 0
    /\ C'.readlen_vals = <<>>
    /\ C'.qual_scheme_vals[1] = W.qual_scheme_vals[1]
    /\ C'.total_reads = W.total_reads /\ C'.total_bases = W.total_bases
    /\ wpc' = "idle" => /\ C'.qual_scheme_vals = W.qual_scheme_vals
                        /\ C'.qual_scheme_lens = <<0>>

(* C29: after quip_out_flush_block the buffered reads and bases, the four  *)
(* byte counts and the four CRCs are 0, the read-length RLE is empty, the  *)
(* quality-scheme RLE is the single run (last base of the block, 0), and   *)
(* the chunk, chunk_len, total_reads and total_bases are as before.        *)
C29_FlushBlockResets ==
    [][BlockFlushStep =>
          /\ ResetAfterFlush(AtFlushEntry, quip_out_flush_block(AtFlushEntry))
          /\ CarriedInto(quip_out_flush_block(AtFlushEntry))]_vars

C29_Witness ==
    /\ Len(Blocks) = 1
    /\ Len(Blocks[1].qual_scheme_vals) = 2
    /\ Blocks[1].qual_scheme_lens[2] > 0
    /\ wpc = "idle"
    /\ ~C.finished
    /\ Len(C.chunk) = chunk_size
    /\ C.qual_scheme_vals = <<Blocks[1].qual_scheme_vals[2]>>
    /\ C.qual_scheme_lens = <<0>>
    /\ C.buffered_reads = 0
    /\ C.total_reads = Blocks[1].buffered_reads


(***************************************************************************)
(* The read-length cursor of the decoder.                                  *)
(***************************************************************************)
(* The private cursor of a decode worker: from the shared cursor it walks  *)
(* over k reads; asked keeps the lengths it takes, idx and off are where   *)
(* it ends.                                                                *)
RECURSIVE PrivateCursor(_, _, _, _, _)
PrivateCursor(d, k, readlen_idx, readlen_off, asked) ==
    IF k = 0
    THEN [asked |-> asked, idx |-> readlen_idx, off |-> readlen_off]
    ELSE PrivateCursor(d, k - 1,
           NextIdx(d.readlen_lens, readlen_idx, readlen_off),
           NextOff(d.readlen_lens, readlen_idx, readlen_off),
           Append(asked, At(d.readlen_vals, readlen_idx)))

WorkerCursor(d) ==
    PrivateCursor(d, DecodeCount(d), d.readlen_idx, d.readlen_off, <<>>)

(* The reads of the block handed out in earlier chunks. *)
ReadsBefore(d) == SumSeq(d.readlen_lens) - d.pending_reads

(* The lengths of the chunk's reads in the expanded read-length RLE. *)
ChunkReadlens(d) ==
    SubSeq(Expand(d.readlen_vals, d.readlen_lens),
           ReadsBefore(d) + 1, ReadsBefore(d) + DecodeCount(d))

Decoding == rpc = "decoding" /\ ~Stopped(D)

(* The workers take the lengths of the expanded RLE, and the seq and qual  *)
(* decoders are asked for exactly these.                                   *)
AskedLengths ==
    Decoding
       => /\ WorkerCursor(D).asked = ChunkReadlens(D)
          /\ rthr["seq"] = "done"
                => \A i \in 1..DecodeCount(D) :
                      Len(D.chunk[i].seq) = ChunkReadlens(D)[i]
          /\ rthr["qual"] = "done"
                => \A i \in 1..DecodeCount(D) :
                      Len(D.chunk[i].qual) = ChunkReadlens(D)[i]

SharedCursor(d) == <<d.readlen_idx, d.readlen_off>>

(* A worker leaves the shared cursor where it is. *)
WorkersCursorPrivate ==
    (Decoding /\ rpc' = "decoding") => SharedCursor(D') = SharedCursor(D)

(* After the join the shared cursor is where the private ones ended. *)
SharedCursorCatchesUp ==
    (Decoding /\ rpc' = "idle")
       => SharedCursor(D') = <<WorkerCursor(D).idx, WorkerCursor(D).off>>

(* C30: for every read of a block the seq and the qual decoder are asked   *)
(* for the length the expanded read-length RLE holds for it, across the    *)
(* chunks of the block; the workers step private copies of the cursor and  *)
(* the join leaves the shared cursor where those ended.                    *)
C30_ReadlenCursor ==
    /\ []AskedLengths
    /\ [][WorkersCursorPrivate /\ SharedCursorCatchesUp]_vars

C30_Witness ==
    /\ Decoding
    /\ ReadsBefore(D) = chunk_size
    /\ SharedCursor(D) = <<1, 0>>
    /\ Len(D.readlen_vals) = 2
    /\ rthr["seq"] = "done"
    /\ rthr["qual"] = "done"
    /\ Len(D.chunk[1].seq) = D.readlen_vals[2]

(***************************************************************************)
(* C31.  The four decode workers of one chunk decode the same number of    *)
(* reads, the smaller of the chunk size and the reads pending in the       *)
(* block; they leave the pending count and the shared run-length cursors   *)
(* alone; after the joins the pending count has dropped by that number     *)
(* and is never negative.                                                  *)
(***************************************************************************)
DecodeStep(t) == rpc = "decoding" /\ rthr[t] = "running" /\ rthr'[t] = "done"

DecodeJoinStep == rpc = "decoding" /\ rpc' # "decoding"

ChunkReads(d) == Min(chunk_size, d.pending_reads)

StreamBufLen(t, d) ==
    CASE t = "id"   -> Len(d.idbuf)
      [] t = "aux"  -> Len(d.auxbuf)
      [] t = "seq"  -> Len(d.seqbuf)
      [] t = "qual" -> Len(d.qualbuf)

StreamBufPos(t, d) ==
    CASE t = "id"   -> d.idbuf_pos
      [] t = "aux"  -> d.auxbuf_pos
      [] t = "seq"  -> d.seqbuf_pos
      [] t = "qual" -> d.qualbuf_pos

(* The bytes of its region that a worker consumes for one read. *)
ItemBytes(t, r) ==
    CASE t = "id"   -> 1 + Len(r.id)
      [] t = "aux"  -> 1 + Len(r.aux)
      [] t = "seq"  -> Len(r.seq)
      [] t = "qual" -> Len(r.qual)

(* Where a region's position stands after the first k reads of the chunk. *)
RECURSIVE PosAfter(_, _, _, _)
PosAfter(t, d, pos, k) ==
    IF k = 0 THEN pos
    ELSE Min(StreamBufLen(t, d),
             PosAfter(t, d, pos, k - 1) + ItemBytes(t, d.chunk[k]))

SharedDecodeState(d) ==
    <<d.pending_reads, d.chunk_len, d.chunk_pos, d.readlen_idx, d.readlen_off,
      d.qual_scheme_idx, d.qual_scheme_off>>

WorkerDecodesChunkReads(t) ==
    DecodeStep(t) =>
        /\ \A i \in DOMAIN D.chunk :
               i > ChunkReads(D) => D'.chunk[i] = D.chunk[i]
        /\ StreamBufPos(t, D') =
               PosAfter(t, D', StreamBufPos(t, D), ChunkReads(D))
        /\ SharedDecodeState(D') = SharedDecodeState(D)

PendingDropsAtJoin ==
    DecodeJoinStep =>
        /\ D'.pending_reads = D.pending_reads - ChunkReads(D)
        /\ D'.chunk_len = ChunkReads(D)

PendingHeldWhileDecoding ==
    (rpc = "decoding" /\ rpc' = "decoding") =>
        SharedDecodeState(D') = SharedDecodeState(D)

C31_WorkersDecodeSameCount ==
    /\ [](Opened => D.pending_reads >= 0)
    /\ [][/\ \A t \in Streams : WorkerDecodesChunkReads(t)
          /\ PendingHeldWhileDecoding
          /\ PendingDropsAtJoin]_vars

(* A chunk shorter than the chunk size, all four workers finished, each    *)
(* region consumed up to its end.                                          *)
C31_Witness ==
    /\ rpc = "decoding"
    /\ AllDone(rthr)
    /\ D.pending_reads = 1
    /\ D.pending_reads < chunk_size
    /\ D.idbuf_pos > 0
    /\ D.seqbuf_pos > 0
    /\ D.qualbuf_pos > 0

(***************************************************************************)
(* C32.  After a block header is read the quality-scheme cursor stands on  *)
(* the first run with a non-zero count, and the base the quality decoder   *)
(* holds when it decodes the block's first read is the base of that run.   *)
(***************************************************************************)
HeaderReadStep ==
    /\ rpc = "idle"
    /\ rpc' = "decoding"
    /\ D.pending_reads = 0

(* The first index of a run with a non-zero count, none: the length. *)
RECURSIVE FirstUsedRun(_, _)
FirstUsedRun(lens, idx) ==
    IF idx >= Len(lens) THEN idx
    ELSE IF lens[idx + 1] # 0 THEN idx
    ELSE FirstUsedRun(lens, idx + 1)

CursorOnFirstUsedRun(d) ==
    /\ d.qual_scheme_idx = FirstUsedRun(d.qual_scheme_lens, 0)
    /\ d.qual_scheme_off = 0
    /\ InArray(d.qual_scheme_lens, d.qual_scheme_idx)
    /\ d.base_qual = At(d.qual_scheme_vals, d.qual_scheme_idx)

FirstReadBase(d) == qual_decompressor_thread(d).dec_base[1]

C32_CursorOnFirstUsedRun ==
    [][HeaderReadStep =>
          /\ CursorOnFirstUsedRun(D')
          /\ FirstReadBase(D') = At(D'.qual_scheme_vals, D'.qual_scheme_idx)]_vars

(***************************************************************************)
(* C33.  For every block that is not the terminator each of the four       *)
(* decoders is reset (id, aux and qual also started) exactly once, after   *)
(* the block's header and regions are read and before the first decode     *)
(* worker of the block is created; no decoder is reset between the chunks  *)
(* of a block, and none when the header read is the terminator.            *)
(***************************************************************************)
ResetsOf(n) == [t \in Streams |-> n]

StartsOf(n) == [t \in Streams |-> IF t = "seq" THEN 0 ELSE n]

OncePerBlock ==
    Opened => /\ rhist.resets = ResetsOf(D.block_num)
              /\ rhist.starts = StartsOf(D.block_num)

ResetStep == rhist'.resets # rhist.resets \/ rhist'.starts # rhist.starts

ResetBetweenHeaderAndWorkers ==
    ResetStep =>
        /\ HeaderReadStep
        /\ D' = quip_in_read_block_header(D)
        /\ D'.block_num = D.block_num + 1
        /\ ~D'.end_of_stream
        /\ rthr = AllIdle
        /\ rthr' = AllRunning
        /\ rhist'.resets = ResetsOf(D'.block_num)

NextChunkStep == rpc = "idle" /\ rpc' = "decoding" /\ D.pending_reads > 0

TerminatorStep == Opened /\ ~D.end_of_stream /\ D'.end_of_stream

C33_DecodersResetOncePerBlock ==
    /\ []OncePerBlock
    /\ [][/\ ResetBetweenHeaderAndWorkers
          /\ HeaderReadStep => ResetStep
          /\ (NextChunkStep \/ TerminatorStep) => ~ResetStep]_vars

(* The second chunk of a block is being decoded: its decoders were reset   *)
(* once, when the header was read.                                         *)
C33_Witness ==
    /\ rpc = "decoding"
    /\ D.block_num = 1
    /\ ReadsBefore(D) = chunk_size
    /\ D.pending_reads > 0
    /\ rhist.resets = ResetsOf(1)
    /\ rhist.starts = StartsOf(1)

(***************************************************************************)
(* C34.  End of stream is sticky: once the reader has read a block header  *)
(* whose number of reads is zero, every later quip_quip_read returns NULL  *)
(* and neither calls the outer reader, nor creates workers, nor emits a    *)
(* warning.                                                                *)
(***************************************************************************)
AfterTerminator == Opened /\ D.end_of_stream

QuietAtEnd ==
    AfterTerminator =>
        /\ rpc = "idle"
        /\ rthr = AllIdle
        /\ D.chunk_pos >= D.chunk_len
        /\ D.pending_reads = 0

NullOnly ==
    AfterTerminator =>
        /\ D' = D
        /\ rpc' = rpc
        /\ rthr' = rthr
        /\ \/ rhist' = rhist
           \/ rhist' = [rhist EXCEPT !.nulls = @ + 1]

C34_EndOfStreamSticky == []QuietAtEnd /\ [][NullOnly]_vars

(* A read after the one that met the terminator of a container with reads. *)
C34_Witness ==
    /\ AfterTerminator
    /\ rhist.nulls = 2
    /\ Len(rhist.returned) > 0

(***************************************************************************)
(* C35.  quip_out_finish is idempotent: a second call, and a close after   *)
(* a finish, write nothing and change no writer state; a close without a   *)
(* finish before it writes exactly what finish would have written.         *)
(***************************************************************************)
(* Nothing follows the one terminator, however often finish and close are  *)
(* called, as long as no read is written after the finish.                 *)
OneTerminatorLast ==
    (C.finished /\ ~hist.late_write) =>
        /\ Len(hist.terms) = 1
        /\ Len(Out) = hist.terms[1] + 4
        /\ SubSeq(Out, hist.terms[1] + 1, Len(Out)) = U32(0)

(* A step of finish or close in a finished writer. *)
FinishedQuiet ==
    (C.finished /\ ~hist'.late_write) => C' = C

(* The step that ends the first finish, called directly or by close. *)
FinishEnds == ~C.finished /\ C'.finished

FinishOf(W) ==
    IF wpc = "chunk" THEN finish_tail(flush_chunk_join(W)) ELSE seq_finish(W)

CloseWritesWhatFinishWould ==
    FinishEnds =>
        /\ C' = FinishOf(C)
        /\ C'.writer_data = FinishOf(C).writer_data
        /\ wpc' \in {"idle", "closed"}
        /\ wpc = "chunk" => (wpc' = "closed" <=> wctx.caller = "close")

ClosedIsFinished == wpc = "closed" => C.finished

C35_FinishIdempotent ==
    /\ [](OneTerminatorLast /\ ClosedIsFinished)
    /\ [][FinishedQuiet /\ CloseWritesWhatFinishWould]_vars

(* A closed writer with a block and its one terminator. *)
C35_Witness ==
    /\ wpc = "closed"
    /\ C.finished
    /\ ~hist.late_write
    /\ Len(hist.blocks) > 0
    /\ Len(hist.terms) = 1
    /\ Len(Out) = hist.terms[1] + 4

(***************************************************************************)
(* C36.  Blocks are closed at chunk boundaries only: every block written   *)
(* before the terminator, the last of them excepted, holds a positive      *)
(* multiple of the chunk size of reads, so that the chunks of the decoder  *)
(* are the chunks of the encoder and every boundary between two            *)
(* quality-scheme runs of a block lies on a chunk boundary of the decoder. *)
(***************************************************************************)
BeforeTerminator(b) == hist.terms = <<>> \/ b.start < hist.terms[1]

LastBeforeTerminator(k) ==
    \A j \in (k + 1)..Len(Blocks) : ~BeforeTerminator(Blocks[j])

WholeChunks(n) == n > 0 /\ n % chunk_size = 0

BlocksOfWholeChunks ==
    \A k \in 1..Len(Blocks) :
        (BeforeTerminator(Blocks[k]) /\ ~LastBeforeTerminator(k)) =>
            WholeChunks(Blocks[k].buffered_reads)

(* The reads of a block that precede its run idx + 1. *)
RunStart(lens, idx) == SumSeq(SubSeq(lens, 1, idx))

(* A boundary between two runs inside a block of n reads. *)
RunBoundaries(lens, n) ==
    {RunStart(lens, idx) : idx \in 1..(Len(lens) - 1)} \ {0, n}

RunsOnChunkBoundaries ==
    \A k \in 1..Len(Blocks) :
        BeforeTerminator(Blocks[k]) =>
            \A m \in RunBoundaries(Blocks[k].qual_scheme_lens,
                                   Blocks[k].buffered_reads) :
                m % chunk_size = 0

C36_BlocksAtChunkBoundaries == BlocksOfWholeChunks /\ RunsOnChunkBoundaries

(***************************************************************************)
(* The widths of the block header's counts.  Only the lengths of the reads *)
(* are kept, in units of 2^30 bases: the 32-bit fields wrap at 4 units,    *)
(* and block_size (5,000,000 bases) lies below one unit, so a block is     *)
(* due as soon as one unit is buffered.  The writer is                     *)
(*   chunk           the lengths of the reads of the chunk                 *)
(*   buffered_reads  size_t                                                *)
(*   buffered_bases  size_t, in units                                      *)
(*   seq_bytes       uint32_t, in units                                    *)
(*   qual_bytes      uint32_t, in units                                    *)
(*   writer_data     the fields of the block headers written               *)
(* and the history holds the counts as they are without any width.         *)
(***************************************************************************)
MaxUnits == 3

Wrap32 == 4

block_units == 0

(* The conversion of an argument to uint32_t, and uint32_t arithmetic. *)
ToUint32(x) == x % Wrap32

WidthWriter ==
    [chunk |-> <<>>, buffered_reads |-> 0, buffered_bases |-> 0,
     seq_bytes |-> 0, qual_bytes |-> 0, writer_data |-> <<>>,
     finished |-> FALSE]

WidthCounts == [reads |-> 0, bases |-> 0, seq_bytes |-> 0, qual_bytes |-> 0]

InitWidth ==
    /\ C = WidthWriter
    /\ hist = [counts |-> WidthCounts, blocks |-> <<>>, appended |-> 0]
    /\ wpc = "idle"
    /\ wthr = AllIdle
    /\ wctx = [caller |-> "none", arg |-> NoRead, totals |-> FALSE]
    /\ D = NoReader
    /\ rpc = "unopened"
    /\ rthr = AllIdle
    /\ rhist = [returned |-> <<>>]
    /\ C2 = C

(* quip_out_flush_chunk, its loop over the chunk: every read has as many   *)
(* quality scores as bases.                                                *)
RECURSIVE width_totals(_, _)
width_totals(W, i) ==
    IF i > Len(W.chunk) THEN W
    ELSE width_totals(
           [W EXCEPT !.qual_bytes = ToUint32(@ + W.chunk[i]),
                     !.seq_bytes = ToUint32(@ + W.chunk[i]),
                     !.buffered_bases = @ + W.chunk[i]],
           i + 1)

width_flush_chunk(W) ==
    [width_totals(W, 1) EXCEPT !.buffered_reads = @ + Len(W.chunk),
                               !.chunk = <<>>]

(* quip_out_flush_block: the counts as write_uint32 receives them. *)
width_flush_block(W) ==
    [W EXCEPT !.writer_data =
                  Append(@, [reads |-> W.buffered_reads,
                             bases |-> ToUint32(W.buffered_bases),
                             seq_bytes |-> W.seq_bytes,
                             qual_bytes |-> W.qual_bytes]),
              !.buffered_reads = 0, !.buffered_bases = 0,
              !.seq_bytes = 0, !.qual_bytes = 0]

width_write(W, n) ==
    LET W1 == IF W.buffered_bases > block_units THEN width_flush_block(W) ELSE W
        W2 == IF Len(W1.chunk) = chunk_size THEN width_flush_chunk(W1) ELSE W1
    IN  [W2 EXCEPT !.chunk = Append(@, n)]

width_finish(W) ==
    IF W.finished THEN W
    ELSE LET W1 == IF Len(W.chunk) > 0 THEN width_flush_chunk(W) ELSE W
             W2 == IF W1.buffered_bases > 0 THEN width_flush_block(W1) ELSE W1
         IN  [W2 EXCEPT !.finished = TRUE]

(* The counts of the block at hand, without any width. *)
CountChunk(c, chunk) ==
    [c EXCEPT !.reads = @ + Len(chunk),
              !.bases = @ + SumSeq(chunk),
              !.seq_bytes = @ + SumSeq(chunk),
              !.qual_bytes = @ + SumSeq(chunk)]

CountBlock(h, flushed) ==
    IF flushed
    THEN [h EXCEPT !.blocks = Append(@, h.counts), !.counts = WidthCounts]
    ELSE h

(* quip_quip_write(C, seq) with a read of n units of bases. *)
WriteLen(n) ==
    /\ ~C.finished
    /\ hist.appended < MaxReads
    /\ C' = width_write(C, n)
    /\ LET h1 == CountBlock(hist, C.buffered_bases > block_units)
       IN  hist' = [h1 EXCEPT
                      !.appended = @ + 1,
                      !.counts = IF Len(C.chunk) = chunk_size
                                 THEN CountChunk(@, C.chunk) ELSE @]
    /\ UNCHANGED <<wpc, wthr, wctx, rvars, C2>>

(* quip_out_finish(C) *)
FinishLen ==
    /\ ~C.finished
    /\ C' = width_finish(C)
    /\ LET c1 == CountChunk(hist.counts, C.chunk)
       IN  hist' = CountBlock([hist EXCEPT !.counts = c1], c1.bases > 0)
    /\ UNCHANGED <<wpc, wthr, wctx, rvars, C2>>

NextWidth ==
    \/ \E n \in 0..MaxUnits : WriteLen(n)
    \/ FinishLen

SpecWidth == InitWidth /\ [][NextWidth]_vars

(***************************************************************************)
(* C37.  The 32-bit fields of every block header written hold the true     *)
(* counts of the block (reads, bases, uncompressed sizes), with no wrap    *)
(* modulo 2^32, whatever the lengths of the reads.                         *)
(***************************************************************************)
C37_FieldsCarryTrueCounts ==
    /\ Len(C.writer_data) = Len(hist.blocks)
    /\ \A k \in 1..Len(hist.blocks) : C.writer_data[k] = hist.blocks[k]

(***************************************************************************)
(* cryfa's FASTQ::compressFQ and FASTQ::packFQ.  The input is a FASTQ file *)
(* of lines 1..lines (four per record), with or without a newline after    *)
(* its last line; a packed context is kept as the numbers of the lines     *)
(* packed into it and takes one line of a partial file.  The packer is     *)
(*   lines, eol  the input file                                            *)
(*   n_threads   the number of workers                                     *)
(*   thr[t]      worker t: where it stands, and its ifstream on the input  *)
(*   pk[t]       the partial file of worker t, as lines                    *)
(*   pckd        the contexts written to the packed file                   *)
(*   joined      the partial files have been joined                        *)
(***************************************************************************)
RecordsPerBlock == 2

BlockLine == 4 * RecordsPerBlock

MaxThreads == 3

MaxRecords == 7

OpenIn == [pos |-> 0, good |-> TRUE]

ThrIdHdr(t) == [hdr |-> t]

(* The stream after getline(in, line) or in.ignore(LARGE_NUMBER, '\n'):    *)
(* a last line without a newline is extracted, and sets eofbit.            *)
AfterLine(s, n, eol) ==
    IF ~s.good \/ s.pos >= n THEN [s EXCEPT !.good = FALSE]
    ELSE [pos |-> s.pos + 1, good |-> ~(s.pos + 1 = n /\ ~eol)]

(* getline(in, line).good() *)
GotLine(s, n, eol) == s.good /\ s.pos < n /\ AfterLine(s, n, eol).good

(* for (u64 l = ...; l--;) IGNORE_THIS_LINE(in): AfterLine, l times over. *)
IgnoreLines(s, l, n, eol) ==
    IF l = 0 THEN s
    ELSE IF ~s.good \/ s.pos + l > n THEN [pos |-> Min(n, s.pos + l), good |-> FALSE]
    ELSE [pos |-> s.pos + l, good |-> ~(s.pos + l = n /\ ~eol)]

(* One turn of packFQ's inner loop: header, sequence, '+', quality. *)
PackRecord(st, n, eol) ==
    LET s1 == AfterLine(st.in, n, eol)
        c1 == IF GotLine(st.in, n, eol)
              THEN Append(st.context, st.in.pos + 1) ELSE st.context
        s2 == AfterLine(s1, n, eol)
        c2 == IF GotLine(s1, n, eol) THEN Append(c1, s1.pos + 1) ELSE c1
        s3 == AfterLine(s2, n, eol)
        s4 == AfterLine(s3, n, eol)
        c4 == IF GotLine(s3, n, eol) THEN Append(c2, s3.pos + 1) ELSE c2
    IN  [in |-> s4, context |-> c4]

RECURSIVE PackGroup(_, _, _, _)
PackGroup(st, l, n, eol) ==
    IF l = BlockLine THEN st
    ELSE PackGroup(PackRecord(st, n, eol), l + 4, n, eol)

(* A worker that skips the groups of all the workers. *)
skip_every_thread(n_threads) == n_threads * BlockLine

(* packFQ, "Ignore to go to the next related chunk". *)
lines_to_next_group(n_threads) == (n_threads - 1) * BlockLine

(* compressFQ, "Join partially packed files": the inner while of thread t. *)
RECURSIVE JoinGroup(_, _, _)
JoinGroup(J, pk, t) ==
    IF J.cur[t] >= Len(pk[t]) THEN [J EXCEPT !.eof[t] = TRUE]
    ELSE LET line == pk[t][J.cur[t] + 1]
             J1   == [J EXCEPT !.cur[t] = @ + 1]
         IN  IF line = ThrIdHdr(t) THEN J1
             ELSE JoinGroup([J1 EXCEPT !.out = Append(@, line.context)], pk, t)

RECURSIVE JoinRound(_, _, _, _)
JoinRound(J, pk, t, n_threads) ==
    IF t = n_threads THEN J
    ELSE JoinRound(JoinGroup(J, pk, t), pk, t + 1, n_threads)

RECURSIVE JoinFiles(_, _, _)
JoinFiles(J, pk, n_threads) ==
    IF J.eof[0] THEN J
    ELSE JoinFiles(JoinRound(J, pk, 0, n_threads), pk, n_threads)

Packer(records, eol, n) ==
    [lines |-> 4 * records, eol |-> eol, n_threads |-> n,
     thr |-> [t \in 0..(n - 1) |-> [state |-> "created", in |-> OpenIn]],
     pk |-> [t \in 0..(n - 1) |-> <<>>],
     pckd |-> <<>>, joined |-> FALSE]

InitPack ==
    /\ \E n \in 1..MaxThreads, records \in 0..MaxRecords, eol \in BOOLEAN :
          /\ records = 0 => eol
          /\ C = Packer(records, eol, n)
    /\ hist = [blocks |-> <<>>]
    /\ wpc = "idle"
    /\ wthr = AllIdle
    /\ wctx = [caller |-> "none", arg |-> NoRead, totals |-> FALSE]
    /\ D = NoReader
    /\ rpc = "unopened"
    /\ rthr = AllIdle
    /\ rhist = [returned |-> <<>>]
    /\ C2 = C

(* packFQ up to its loop: "Lines ignored at the beginning". *)
PackStart(t) ==
    /\ C.thr[t].state = "created"
    /\ C' = [C EXCEPT !.thr[t] =
               [state |-> "running",
                in |-> IgnoreLines(OpenIn, t * BlockLine, C.lines, C.eol)]]
    /\ UNCHANGED <<hist, wpc, wthr, wctx, rvars, C2>>

(* One turn of packFQ's while (in.peek() != EOF), or its end. *)
PackStep(t) ==
    /\ C.thr[t].state = "running"
    /\ LET in == C.thr[t].in
       IN  IF in.good /\ in.pos < C.lines
           THEN LET st == PackGroup([in |-> in, context |-> <<>>], 0,
                                    C.lines, C.eol)
                IN  C' = [C EXCEPT
                            !.pk[t] = @ \o <<ThrIdHdr(t), [context |-> st.context]>>,
                            !.thr[t].in =
                                IgnoreLines(st.in, lines_to_next_group(C.n_threads),
                                            C.lines, C.eol)]
           ELSE C' = [C EXCEPT !.thr[t].state = "done"]
    /\ UNCHANGED <<hist, wpc, wthr, wctx, rvars, C2>>

(* compressFQ after the joins of the workers. *)
JoinPacked ==
    /\ ~C.joined
    /\ \A t \in DOMAIN C.thr : C.thr[t].state = "done"
    /\ LET J == [cur |-> [t \in DOMAIN C.pk |-> 0],
                 eof |-> [t \in DOMAIN C.pk |-> FALSE], out |-> <<>>]
       IN  C' = [C EXCEPT !.pckd = JoinFiles(J, C.pk, C.n_threads).out,
                          !.joined = TRUE]
    /\ UNCHANGED <<hist, wpc, wthr, wctx, rvars, C2>>

NextPack ==
    \/ \E t \in DOMAIN C.thr : PackStart(t)
    \/ \E t \in DOMAIN C.thr : PackStep(t)
    \/ JoinPacked

SpecPack == InitPack /\ [][NextPack]_vars

(***************************************************************************)
(* C38.  Worker t packs exactly the groups g of BlockLine lines with       *)
(* g mod n_threads = t into its own partial file, and the join writes      *)
(* every group once and in the order 0, 1, 2, ... of the input, whatever   *)
(* the scheduling of the workers, also with fewer groups than workers.     *)
(***************************************************************************)
NumGroups == (C.lines + BlockLine - 1) \div BlockLine

(* The lines of group g that a context holds: all but the '+' lines, and   *)
(* but a last line of the input that no newline ends.                      *)
Packed(i) == i % 4 # 3 /\ (i < C.lines \/ C.eol)

GroupContext(g) ==
    SelectSeq([i \in 1..(Min((g + 1) * BlockLine, C.lines) - g * BlockLine) |->
                   g * BlockLine + i],
              Packed)

GroupsOf(t) == {g \in 0..(NumGroups - 1) : g % C.n_threads = t}

PartialFileOf(t) ==
    /\ Len(C.pk[t]) % 2 = 0
    /\ Len(C.pk[t]) \div 2 <= Cardinality(GroupsOf(t))
    /\ \A k \in 1..(Len(C.pk[t]) \div 2) :
          /\ C.pk[t][2 * k - 1] = ThrIdHdr(t)
          /\ C.pk[t][2 * k] =
                 [context |-> GroupContext(t + (k - 1) * C.n_threads)]
    /\ C.thr[t].state = "done" =>
          Len(C.pk[t]) \div 2 = Cardinality(GroupsOf(t))

JoinedInInputOrder ==
    C.joined => C.pckd = [g \in 1..NumGroups |-> GroupContext(g - 1)]

FramingConsumed(l) ==
    l.pos - l.ends[1]
      - (l.id_bytes[2] + l.aux_bytes[2] + l.seq_bytes[2] + l.qual_bytes[2])

C39_HeaderBytesAreFraming ==
    (ListedOut /\ rhist.list.status = "ok") =>
        rhist.list.header_bytes = FramingConsumed(rhist.list)

=============================================================================
